---- MODULE Spec2Model ----
(***************************************************************************)
(* A model of openclaw-mini: the two-lane command queue, the Agent's run   *)
(* orchestration with its agent loop, steering and abort, the per-run      *)
(* event sequence numbering, and the heartbeat wake coalescer.             *)
(*                                                                         *)
(* Strings of the program are sequences of one-character strings, so that  *)
(* trimming, lower-casing and prefix tests are computed as the code        *)
(* computes them.  JavaScript is single threaded: one action of the model  *)
(* is the code that runs between two suspension points (awaits, timers).   *)
(***************************************************************************)
EXTENDS Integers, Sequences, FiniteSets, TLC

(***************************************************************************)
(* Bounds of the model.                                                    *)
(***************************************************************************)
\* run() calls made in one behaviour (user calls and subagent spawns)
MaxRuns == 2
\* the Agent's maxTurns configuration
MaxTurns == 1
\* tool calls the model streams in one turn
MaxCalls == 2
\* steer() calls made in one behaviour
MaxSteers == 2
\* request() calls made on the wake coalescer in one behaviour
MaxRequests == 3
\* handler invocations of the wake coalescer in one behaviour
MaxInvocations == 3
\* stop() calls made on the wake coalescer in one behaviour
MaxStops == 1
\* the largest maxTurns the Agent is configured with where one run is followed
\* through its retries and compactions
MaxLoopTurns == 2
\* runOnce calls made on the heartbeat runner in one behaviour
MaxHeartbeatRuns == 2
\* calls of enqueueInLane made by callers other than the Agent
MaxTasks == 3
\* the longest run of one character inside an agent id passed to the key functions
MaxFill == 64

(***************************************************************************)
(* Strings.                                                                *)
(***************************************************************************)
LowerChars ==
    {"a","b","c","d","e","f","g","h","i","j","k","l","m",
     "n","o","p","q","r","s","t","u","v","w","x","y","z"}

DigitChars == {"0","1","2","3","4","5","6","7","8","9"}

WhiteChars == {" ", "\t", "\n"}

UpperToLower ==
    [ch \in {"A","B","C","D","E","F","G","H","I","J","K","L","M",
             "N","O","P","Q","R","S","T","U","V","W","X","Y","Z"} |->
        CASE ch = "A" -> "a" [] ch = "B" -> "b" [] ch = "C" -> "c"
          [] ch = "D" -> "d" [] ch = "E" -> "e" [] ch = "F" -> "f"
          [] ch = "G" -> "g" [] ch = "H" -> "h" [] ch = "I" -> "i"
          [] ch = "J" -> "j" [] ch = "K" -> "k" [] ch = "L" -> "l"
          [] ch = "M" -> "m" [] ch = "N" -> "n" [] ch = "O" -> "o"
          [] ch = "P" -> "p" [] ch = "Q" -> "q" [] ch = "R" -> "r"
          [] ch = "S" -> "s" [] ch = "T" -> "t" [] ch = "U" -> "u"
          [] ch = "V" -> "v" [] ch = "W" -> "w" [] ch = "X" -> "x"
          [] ch = "Y" -> "y" [] OTHER -> "z"]

\* String.prototype.toLowerCase
ToLowerCase(s) ==
    [i \in 1..Len(s) |-> IF s[i] \in DOMAIN UpperToLower THEN UpperToLower[s[i]] ELSE s[i]]

RECURSIVE TrimStart(_)
TrimStart(s) ==
    IF s # <<>> /\ Head(s) \in WhiteChars THEN TrimStart(Tail(s)) ELSE s

RECURSIVE TrimEnd(_)
TrimEnd(s) ==
    IF s # <<>> /\ s[Len(s)] \in WhiteChars THEN TrimEnd(SubSeq(s, 1, Len(s) - 1)) ELSE s

\* String.prototype.trim
Trim(s) == TrimEnd(TrimStart(s))

\* String.prototype.startsWith
StartsWith(s, p) == Len(s) >= Len(p) /\ SubSeq(s, 1, Len(p)) = p

\* Array.prototype.join
RECURSIVE Join(_, _)
Join(parts, sep) ==
    IF parts = <<>> THEN <<>>
    ELSE IF Len(parts) = 1 THEN parts[1]
    ELSE parts[1] \o sep \o Join(Tail(parts), sep)

(***************************************************************************)
(* Error classifier and retry decisions (provider/errors.ts).              *)
(***************************************************************************)
\* String.prototype.includes
Includes(s, p) ==
    \E i \in 1..(Len(s) - Len(p) + 1) : SubSeq(s, i, i + Len(p) - 1) = p

RATE_LIMIT_PATTERNS ==
    {<<"r","a","t","e","_","l","i","m","i","t">>,
     <<"t","o","o"," ","m","a","n","y"," ","r","e","q","u","e","s","t","s">>,
     <<"4","2","9">>,
     <<"e","x","c","e","e","d","e","d"," ","q","u","o","t","a">>,
     <<"r","e","s","o","u","r","c","e"," ","e","x","h","a","u","s","t","e","d">>,
     <<"q","u","o","t","a"," ","e","x","c","e","e","d","e","d">>,
     <<"r","e","s","o","u","r","c","e","_","e","x","h","a","u","s","t","e","d">>,
     <<"u","s","a","g","e"," ","l","i","m","i","t">>}

TIMEOUT_PATTERNS ==
    {<<"t","i","m","e","o","u","t">>,
     <<"t","i","m","e","d"," ","o","u","t">>,
     <<"d","e","a","d","l","i","n","e"," ","e","x","c","e","e","d","e","d">>,
     <<"c","o","n","t","e","x","t"," ","d","e","a","d","l","i","n","e"," ","e","x","c","e","e","d","e","d">>}

AUTH_PATTERNS ==
    {<<"i","n","v","a","l","i","d","_","a","p","i","_","k","e","y">>,
     <<"i","n","c","o","r","r","e","c","t"," ","a","p","i"," ","k","e","y">>,
     <<"i","n","v","a","l","i","d"," ","t","o","k","e","n">>,
     <<"a","u","t","h","e","n","t","i","c","a","t","i","o","n">>,
     <<"u","n","a","u","t","h","o","r","i","z","e","d">>,
     <<"f","o","r","b","i","d","d","e","n">>,
     <<"a","c","c","e","s","s"," ","d","e","n","i","e","d">>,
     <<"e","x","p","i","r","e","d">>,
     <<"4","0","1">>,
     <<"4","0","3">>}

BILLING_PATTERNS ==
    {<<"4","0","2">>,
     <<"p","a","y","m","e","n","t"," ","r","e","q","u","i","r","e","d">>,
     <<"i","n","s","u","f","f","i","c","i","e","n","t"," ","c","r","e","d","i","t","s">>,
     <<"c","r","e","d","i","t"," ","b","a","l","a","n","c","e">>}

FORMAT_PATTERNS ==
    {<<"s","t","r","i","n","g"," ","s","h","o","u","l","d"," ","m","a","t","c","h"," ","p","a","t","t","e","r","n">>,
     <<"i","n","v","a","l","i","d"," ","r","e","q","u","e","s","t"," ","f","o","r","m","a","t">>}

CONTEXT_OVERFLOW_PATTERNS ==
    {<<"r","e","q","u","e","s","t","_","t","o","o","_","l","a","r","g","e">>,
     <<"r","e","q","u","e","s","t"," ","e","x","c","e","e","d","s"," ","t","h","e"," ","m","a","x","i","m","u","m"," ","s","i","z","e">>,
     <<"c","o","n","t","e","x","t"," ","l","e","n","g","t","h"," ","e","x","c","e","e","d","e","d">>,
     <<"m","a","x","i","m","u","m"," ","c","o","n","t","e","x","t"," ","l","e","n","g","t","h">>,
     <<"p","r","o","m","p","t"," ","i","s"," ","t","o","o"," ","l","o","n","g">>,
     <<"e","x","c","e","e","d","s"," ","m","o","d","e","l"," ","c","o","n","t","e","x","t"," ","w","i","n","d","o","w">>,
     <<"c","o","n","t","e","x","t"," ","o","v","e","r","f","l","o","w">>}

matchesAny(message, patterns) ==
    LET lower == ToLowerCase(message) IN \E p \in patterns : Includes(lower, p)

\* an absent or empty message matches nothing
isContextOverflowError(message) ==
    IF message = <<>> THEN FALSE
    ELSE IF matchesAny(message, CONTEXT_OVERFLOW_PATTERNS) THEN TRUE
    ELSE LET lower == ToLowerCase(message)
         IN  Includes(lower, <<"4","1","3">>)
                /\ Includes(lower, <<"t","o","o"," ","l","a","r","g","e">>)

isRateLimitError(message) ==
    message # <<>> /\ matchesAny(message, RATE_LIMIT_PATTERNS)

\* billing > auth > rate_limit > timeout > format > null; "unknown" stands for null
classifyFailoverReason(message) ==
    IF matchesAny(message, BILLING_PATTERNS) THEN "billing"
    ELSE IF matchesAny(message, AUTH_PATTERNS) THEN "auth"
    ELSE IF matchesAny(message, RATE_LIMIT_PATTERNS) THEN "rate_limit"
    ELSE IF matchesAny(message, TIMEOUT_PATTERNS) THEN "timeout"
    ELSE IF matchesAny(message, FORMAT_PATTERNS) THEN "format"
    ELSE "unknown"

\* describeError(err) of an Error is its message: errors are their texts here

(***************************************************************************)
(* Session keys (session-key.ts).                                          *)
(***************************************************************************)
DEFAULT_AGENT_ID == <<"m","a","i","n">>
DEFAULT_MAIN_KEY == <<"m","a","i","n">>
AgentPrefix == <<"a","g","e","n","t",":">>
SessionPrefix == <<"s","e","s","s","i","o","n",":">>
Colon == <<":">>

IdChars == LowerChars \cup DigitChars \cup {"_", "-"}

\* VALID_ID_RE = /^[a-z0-9][a-z0-9_-]{0,63}$/i
ValidId(s) ==
    LET l == ToLowerCase(s) IN
    /\ Len(l) >= 1
    /\ Len(l) <= 64
    /\ l[1] \in LowerChars \cup DigitChars
    /\ \A i \in 1..Len(l) : l[i] \in IdChars

\* replace(INVALID_CHARS_RE, "-"): every maximal run of invalid characters becomes one "-"
RECURSIVE ReplaceInvalid(_)
ReplaceInvalid(s) ==
    IF s = <<>> THEN <<>>
    ELSE IF Head(s) \in IdChars THEN <<Head(s)>> \o ReplaceInvalid(Tail(s))
    ELSE IF Len(s) >= 2 /\ s[2] \notin IdChars THEN ReplaceInvalid(Tail(s))
    ELSE <<"-">> \o ReplaceInvalid(Tail(s))

RECURSIVE StripLeadingDash(_)
StripLeadingDash(s) ==
    IF s # <<>> /\ Head(s) = "-" THEN StripLeadingDash(Tail(s)) ELSE s

RECURSIVE StripTrailingDash(_)
StripTrailingDash(s) ==
    IF s # <<>> /\ s[Len(s)] = "-" THEN StripTrailingDash(SubSeq(s, 1, Len(s) - 1)) ELSE s

Slice64(s) == IF Len(s) > 64 THEN SubSeq(s, 1, 64) ELSE s

normalizeAgentId(value) ==
    LET trimmed == Trim(value) IN
    IF trimmed = <<>> THEN DEFAULT_AGENT_ID
    ELSE IF ValidId(trimmed) THEN ToLowerCase(trimmed)
    ELSE LET cleaned == Slice64(StripTrailingDash(StripLeadingDash(
                            ReplaceInvalid(ToLowerCase(trimmed)))))
         IN  IF cleaned = <<>> THEN DEFAULT_AGENT_ID ELSE cleaned

normalizeMainKey(value) ==
    LET trimmed == Trim(value) IN
    IF trimmed = <<>> THEN DEFAULT_MAIN_KEY ELSE ToLowerCase(trimmed)

buildAgentMainSessionKey(agentId, mainKey) ==
    AgentPrefix \o normalizeAgentId(agentId) \o Colon \o normalizeMainKey(mainKey)

\* toAgentStoreSessionKey prefixing every request key
toAgentStoreSessionKeyPrefixing(agentId, requestKey) ==
    LET raw == Trim(requestKey)
        lowered == ToLowerCase(raw)
    IN  IF raw = <<>> \/ lowered = DEFAULT_MAIN_KEY
        THEN buildAgentMainSessionKey(agentId, <<>>)
        ELSE AgentPrefix \o normalizeAgentId(agentId) \o Colon \o lowered

toAgentStoreSessionKey(agentId, requestKey) ==
    LET raw == Trim(requestKey)
        lowered == ToLowerCase(raw)
    IN  IF raw = <<>> \/ lowered = DEFAULT_MAIN_KEY
        THEN buildAgentMainSessionKey(agentId, <<>>)
        ELSE IF StartsWith(lowered, AgentPrefix) THEN lowered
        ELSE AgentPrefix \o normalizeAgentId(agentId) \o Colon \o lowered

\* resolveSessionKey({agentId, sessionId: id, sessionKey: id}) as Agent.run calls it
resolveSessionKey(agentId, id) ==
    LET agent == normalizeAgentId(agentId)
        explicit == Trim(id)
    IN  IF explicit # <<>> THEN toAgentStoreSessionKey(agent, explicit)
        ELSE buildAgentMainSessionKey(agent, DEFAULT_MAIN_KEY)

\* resolveSessionKey({agentId, sessionId, sessionKey}); <<>> stands for a
\* parameter that is not given
resolveSessionKeyParams(agentId, sessionId, sessionKey) ==
    LET agent == normalizeAgentId(IF agentId = <<>> THEN DEFAULT_AGENT_ID ELSE agentId)
        explicit == Trim(sessionKey)
        id == Trim(sessionId)
    IN  IF explicit # <<>> THEN toAgentStoreSessionKey(agent, explicit)
        ELSE IF id # <<>> THEN toAgentStoreSessionKey(agent, id)
        ELSE buildAgentMainSessionKey(agent, DEFAULT_MAIN_KEY)

\* a session lane that is the global lane
resolveSessionLaneShared(sessionKey) == <<"m","a","i","n">>

\* command-queue.ts
resolveSessionLane(sessionKey) ==
    LET t == Trim(sessionKey)
        cleaned == IF t = <<>> THEN <<"m","a","i","n">> ELSE t
    IN  IF StartsWith(cleaned, SessionPrefix) THEN cleaned ELSE SessionPrefix \o cleaned

resolveGlobalLane == <<"m","a","i","n">>


(***************************************************************************)
(* Inputs of the model.                                                    *)
(***************************************************************************)
DigitOf(n) ==
    CASE n = 0 -> "0" [] n = 1 -> "1" [] n = 2 -> "2" [] n = 3 -> "3" [] n = 4 -> "4"
      [] n = 5 -> "5" [] n = 6 -> "6" [] n = 7 -> "7" [] n = 8 -> "8" [] OTHER -> "9"

\* AgentConfig.agentId of the one Agent instance
ConfigAgentId == <<"m","a","i","n">>

\* identifiers callers pass to run() and steer(): a bare session id and the
\* canonical key of the same session
Idents ==
    { <<"s","1">>,
      <<"a","g","e","n","t",":","m","a","i","n",":","s","1">> }

\* the text of the n-th steer() call: the calls carry different texts
SteerText(n) == <<"t", DigitOf(n)>>

\* AgentConfig.maxConcurrentRuns values the Agent is constructed with
ConcurrencyChoices == {1, 2}

Runs == 1..MaxRuns

\* crypto.randomUUID() of the c-th run() call: fresh per call
RunIdOf(c) == <<"r", DigitOf(c)>>

SubagentTail == <<":","s","u","b","a","g","e","n","t",":">>

\* buildSubagentSessionKey: agent:<agentId>:subagent:<uuid>, the uuid fresh per spawn
buildSubagentSessionKey(agentId, c) ==
    <<"a","g","e","n","t">> \o Colon \o normalizeAgentId(agentId) \o SubagentTail
        \o <<"u", DigitOf(c)>>

\* a canonical key agent:<agentId>:<tail> whose tail starts with subagent:
isSubagentSessionKey(key) ==
    /\ StartsWith(key, AgentPrefix)
    /\ \E i \in (Len(AgentPrefix) + 1)..Len(key) :
          /\ key[i] = ":"
          /\ \A j \in (Len(AgentPrefix) + 1)..(i - 1) : key[j] # ":"
          /\ StartsWith(SubSeq(key, i, Len(key)), SubagentTail)

(***************************************************************************)
(* State.                                                                  *)
(***************************************************************************)
VARIABLES
    lanes,            \* command-queue.ts `lanes`: lane name -> LaneState
    runs,             \* per run() call: where its task is and the loop's locals
    nextCall,         \* number of run() calls made so far
    events,           \* run id -> the events emitted with that run id, in order
    seqByRun,         \* agent-events.ts `seqByRun`
    log,              \* session key -> the session log (SessionManager)
    steeringQueues,   \* Agent.steeringQueues: key -> queued texts
    controllers,      \* Agent.runAbortControllers: the run ids registered
    steerCount,       \* number of steer() calls made so far
    maxTurns,         \* Agent.maxTurns, set by the constructor
    tasks,            \* the enqueueInLane calls of callers other than the Agent
    wake,             \* HeartbeatWake.state
    timeouts,         \* the host's pending setTimeout callbacks: handle -> delay
    handler,          \* the requests of the handler invocations in flight
    wakeObs,          \* what an observer of the coalescer's interface has counted
    clock,            \* the host's Date.now()
    hbConfig,         \* HeartbeatManager.config and the number of its callbacks
    runner,           \* HeartbeatManager.state and HeartbeatManager.started
    runnerTimeouts,   \* the host's pending timeouts set by scheduleNext: handle -> delay
    invocations,      \* the calls of HeartbeatManager.runOnce, in call order
    runnerObs,        \* what an observer of the manager's interface has noted
    keys              \* a caller of the session-key functions: its inputs and results

agentVars == <<lanes, runs, nextCall, events, seqByRun, log, steeringQueues,
               controllers, steerCount, maxTurns, tasks>>
wakeVars == <<wake, timeouts, handler, wakeObs>>
runnerVars == <<clock, hbConfig, runner, runnerTimeouts, invocations, runnerObs>>
keyVars == <<keys>>
vars == <<lanes, runs, nextCall, events, seqByRun, log, steeringQueues,
          controllers, steerCount, maxTurns, tasks, wake, timeouts, handler, wakeObs,
          clock, hbConfig, runner, runnerTimeouts, invocations, runnerObs, keys>>

\* a run: where its task is (pc), the locals of runAgentLoop and of retryAsync
\* (turns, attempt, overflowCompactionAttempted, compactionSummary, the names of
\* toolCalls, result, the contents of toolResults), the error its body threw,
\* and `streams`, the turn number of every streamFn call it made; queuedBefore
\* records how many steering texts were queued when the task body started
NoRun ==
    [pc |-> "idle", key |-> <<>>, parent |-> <<>>, turns |-> 0, nCalls |-> 0,
     idx |-> 0, text |-> FALSE, steered |-> FALSE, aborted |-> FALSE,
     failed |-> FALSE, total |-> 0, steeringText |-> <<>>,
     attempt |-> 0, overflowCompactionAttempted |-> FALSE,
     compactionSummary |-> FALSE, names |-> <<>>, result |-> <<>>,
     results |-> <<>>, error |-> <<>>, streams |-> <<>>, queuedBefore |-> 0]

\* the part of the state that synchronous call chains read and write
World ==
    [lanes |-> lanes, runs |-> runs, nextCall |-> nextCall, events |-> events,
     seqByRun |-> seqByRun, steeringQueues |-> steeringQueues,
     controllers |-> controllers, tasks |-> tasks, thrown |-> FALSE]

Commit(W) ==
    /\ lanes' = W.lanes
    /\ runs' = W.runs
    /\ nextCall' = W.nextCall
    /\ events' = W.events
    /\ seqByRun' = W.seqByRun
    /\ steeringQueues' = W.steeringQueues
    /\ controllers' = W.controllers
    /\ tasks' = W.tasks

Get(f, k, default) == IF k \in DOMAIN f THEN f[k] ELSE default
Put(f, k, v) == [x \in DOMAIN f \cup {k} |-> IF x = k THEN v ELSE f[x]]
Del(f, k) == [x \in DOMAIN f \ {k} |-> f[x]]

(***************************************************************************)
(* Event bus (agent-events.ts).                                            *)
(***************************************************************************)
emitAgentEvent(W, runId, stream, phase) ==
    LET nextSeq == Get(W.seqByRun, runId, 0) + 1
        counted == Put(W.seqByRun, runId, nextSeq)
        payload == [seq |-> nextSeq, stream |-> stream, phase |-> phase]
    IN  [W EXCEPT
            !.events = Put(W.events, runId, Append(Get(W.events, runId, <<>>), payload)),
            !.seqByRun = IF phase \in {"end", "error"} THEN Del(counted, runId) ELSE counted]

(***************************************************************************)
(* Command queue (command-queue.ts) and the start of a run's task.         *)
(***************************************************************************)
\* a lane created with room for two tasks
NewLaneOfTwo == [active |-> 0, queue |-> <<>>, maxConcurrent |-> 2]

NewLane == [active |-> 0, queue |-> <<>>, maxConcurrent |-> 1]

getLaneState(W, lane) ==
    IF lane \in DOMAIN W.lanes THEN W ELSE [W EXCEPT !.lanes = Put(W.lanes, lane, NewLane)]

\* Agent.run, lines 508-526: the task body up to its first await
StartBody(W, c) ==
    LET key == W.runs[c].key
        W1 == [W EXCEPT
                 !.controllers = @ \cup {RunIdOf(c)},
                 !.steeringQueues = IF key \in DOMAIN @ THEN @ ELSE Put(@, key, <<>>),
                 !.runs[c].queuedBefore = Len(Get(W.steeringQueues, key, <<>>)),
                 !.runs[c].pc = "prepare"]
    IN  emitAgentEvent(W1, RunIdOf(c), "lifecycle", "start")

RECURSIVE drainLane(_, _)

enqueueInLane(W, lane, entry) ==
    LET W1 == getLaneState(W, lane)
        W2 == [W1 EXCEPT !.lanes[lane].queue = Append(@, entry)]
    IN  drainLane(W2, lane)

\* a call enqueueInLane(lane, task, opts) of a caller other than the Agent:
\* where its entry is (pc: queued, admitted, running, settled, wrapped), what
\* task() does (`error` is what it throws before its first await, <<>> if it
\* returns a promise; `outcome` and `value` are how that promise settles),
\* opts.onWait, whether the entry has waited longer than warnAfterMs, the
\* promise enqueueInLane returned and whether the caller has seen it settled;
\* startNo numbers the calls of task() on the lane and decrements counts the
\* executions of `state.active -= 1` by the entry's wrapper
NewTask(lane, error, onWait) ==
    [lane |-> lane, pc |-> "queued", error |-> error, onWait |-> onWait,
     waited |-> FALSE, outcome |-> "", value |-> <<>>, promise |-> "pending",
     promiseValue |-> <<>>, observed |-> FALSE, startNo |-> 0, decrements |-> 0]

\* what an onWait callback throws
OnWaitError == <<"w","a","i","t">>

\* lines 56-59: waitMs > warnAfterMs and the entry's onWait throws
onWaitThrows(W, entry) ==
    /\ entry.kind = "task"
    /\ W.tasks[entry.run].onWait = "throws"
    /\ W.tasks[entry.run].waited

\* the number of calls of task() made so far on `lane`
Started(W, lane) ==
    Cardinality({t \in DOMAIN W.tasks : W.tasks[t].lane = lane /\ W.tasks[t].startNo > 0})

\* entry.resolve / entry.reject: a settled promise stays as it is
settlePromise(W, t, how, value) ==
    IF W.tasks[t].promise # "pending" THEN W
    ELSE [W EXCEPT !.tasks[t].promise = how, !.tasks[t].promiseValue = value]

\* lines 67-71, the wrapper's catch block; an exception of drainLane leaves the
\* wrapper, whose promise nobody awaits, before entry.reject
wrapperCatch(W, t, err) ==
    LET lane == W.tasks[t].lane
        W1 == [W EXCEPT !.lanes[lane].active = @ - 1,
                        !.tasks[t].decrements = @ + 1,
                        !.tasks[t].pc = "wrapped"]
        W2 == drainLane(W1, lane)
    IN  IF W2.thrown THEN [W2 EXCEPT !.thrown = FALSE]
        ELSE settlePromise(W2, t, "rejected", err)

\* lines 63-66, the wrapper after `await entry.task()` returned `value`; an
\* exception of drainLane is caught by the wrapper's catch block
wrapperTry(W, t, value) ==
    LET lane == W.tasks[t].lane
        W1 == [W EXCEPT !.lanes[lane].active = @ - 1,
                        !.tasks[t].decrements = @ + 1,
                        !.tasks[t].pc = "wrapped"]
        W2 == drainLane(W1, lane)
    IN  IF W2.thrown THEN wrapperCatch([W2 EXCEPT !.thrown = FALSE], t, OnWaitError)
        ELSE settlePromise(W2, t, "resolved", value)

\* entry.task(): the session-lane task enqueues the body on the global lane,
\* the global-lane task is the body of Agent.run; a caller's task runs to its
\* first await or throws
startTask(W, entry) ==
    IF entry.kind = "outer"
    THEN enqueueInLane([W EXCEPT !.runs[entry.run].pc = "queuedGlobal"],
                       resolveGlobalLane, [kind |-> "body", run |-> entry.run])
    ELSE IF entry.kind = "body" THEN StartBody(W, entry.run)
    ELSE LET t == entry.run
             W1 == [W EXCEPT !.tasks[t].pc = "running",
                             !.tasks[t].startNo = Started(W, W.tasks[t].lane) + 1]
         IN  IF W.tasks[t].error # <<>> THEN wrapperCatch(W1, t, W.tasks[t].error)
             ELSE W1

\* drainLane without the concurrency test of its loop condition
drainLaneUnbounded(W, lane) ==
    LET W0 == getLaneState(W, lane)
        state == W0.lanes[lane]
    IN  IF Len(state.queue) > 0
        THEN LET entry == Head(state.queue)
                 W1 == [W0 EXCEPT !.lanes[lane].queue = Tail(@),
                                  !.lanes[lane].active = @ + 1]
             IN  drainLane(startTask(W1, entry), lane)
        ELSE W0

\* drainLane taking the newest entry of the queue
drainLaneNewestFirst(W, lane) ==
    LET W0 == getLaneState(W, lane)
        state == W0.lanes[lane]
    IN  IF state.active < state.maxConcurrent /\ Len(state.queue) > 0
        THEN LET entry == state.queue[Len(state.queue)]
                 W1 == [W0 EXCEPT !.lanes[lane].queue = SubSeq(@, 1, Len(@) - 1),
                                  !.lanes[lane].active = @ + 1]
             IN  IF onWaitThrows(W1, entry)
                 THEN [W1 EXCEPT !.thrown = TRUE, !.tasks[entry.run].pc = "admitted"]
                 ELSE drainLane(startTask(W1, entry), lane)
        ELSE W0

\* drainLane: an onWait that throws ends the call with the entry taken from
\* the queue and counted in `active`, its task not called
drainLane(W, lane) ==
    LET W0 == getLaneState(W, lane)
        state == W0.lanes[lane]
    IN  IF state.active < state.maxConcurrent /\ Len(state.queue) > 0
        THEN LET entry == Head(state.queue)
                 W1 == [W0 EXCEPT !.lanes[lane].queue = Tail(@),
                                  !.lanes[lane].active = @ + 1]
             IN  IF onWaitThrows(W1, entry)
                 THEN [W1 EXCEPT !.thrown = TRUE, !.tasks[entry.run].pc = "admitted"]
                 ELSE drainLane(startTask(W1, entry), lane)
        ELSE W0

Max(a, b) == IF a >= b THEN a ELSE b

setLaneConcurrency(W, lane, maxConcurrent) ==
    LET W1 == getLaneState(W, lane)
        W2 == [W1 EXCEPT !.lanes[lane].maxConcurrent = Max(1, maxConcurrent)]
    IN  drainLane(W2, lane)

\* the continuation of drainLane's wrapper after `await entry.task()`
laneTaskSettled(W, lane) ==
    drainLane([W EXCEPT !.lanes[lane].active = @ - 1], lane)

\* enqueueInLane(lane, task, opts) of a caller other than the Agent: an
\* exception of drainLane inside the promise executor rejects the promise
enqueueTask(W, lane, error, onWait) ==
    LET t == Len(W.tasks) + 1
        W1 == [W EXCEPT !.tasks = Append(@, NewTask(lane, error, onWait))]
        W2 == enqueueInLane(W1, lane, [kind |-> "task", run |-> t])
    IN  IF W2.thrown THEN settlePromise([W2 EXCEPT !.thrown = FALSE], t, "rejected", OnWaitError)
        ELSE W2

\* time passes after a call returned: the entries left in the queues have
\* waited longer than their warnAfterMs when they are taken
Elapsed(W) ==
    [W EXCEPT !.tasks = [t \in DOMAIN @ |->
                            IF @[t].pc = "queued" THEN [@[t] EXCEPT !.waited = TRUE]
                            ELSE @[t]]]

\* Agent.run up to the outer enqueueInLane
AgentRun(W, id, parent) ==
    LET c == W.nextCall + 1
        sessionKey == resolveSessionKey(ConfigAgentId, id)
        W1 == [W EXCEPT !.nextCall = c,
                        !.runs[c] = [NoRun EXCEPT !.pc = "queuedSession",
                                                  !.key = sessionKey,
                                                  !.parent = parent]]
    IN  enqueueInLane(W1, resolveSessionLane(sessionKey), [kind |-> "outer", run |-> c])


(***************************************************************************)
(* Session log (SessionManager.append) and messages.                      *)
(***************************************************************************)
\* a message of the log; `by` names the run and `origin` the code that appended
\* it: Agent.run ("run"), runAgentLoop ("loop") or spawnSubagent's
\* continuation ("subagent")
Msg(role, kind, ids, content, by, origin) ==
    [role |-> role, kind |-> kind, ids |-> ids, content |-> content, by |-> by,
     origin |-> origin]

\* the tool_use id of call i of turn t of run c: ids are unique per call
ToolId(c, t, i) == c * 100 + t * 10 + i

ToolIds(c, t, n) == [i \in 1..n |-> ToolId(c, t, i)]

sessionsAppend(L, key, msg) == Put(L, key, Append(Get(L, key, <<>>), msg))

UserText == <<"h","i">>
AssistantText == <<"o","k">>
SummaryText == <<"[","s","]">>
Newline == <<"\n">>

(***************************************************************************)
(* Agent.run, the end of the task body (lines 671-710).                    *)
(***************************************************************************)
\* runAgentLoop returned: lifecycle end, then `finally`
FinishEnd(W, c) ==
    LET W1 == emitAgentEvent(W, RunIdOf(c), "lifecycle", "end")
    IN  [W1 EXCEPT !.controllers = @ \ {RunIdOf(c)},
                   !.runs[c].pc = "bodyDone",
                   !.runs[c].failed = FALSE]

\* FinishError with the end event emitted before the failure is caught
FinishErrorAfterEnd(W, c) ==
    LET W1 == emitAgentEvent(W, RunIdOf(c), "lifecycle", "end")
        W2 == emitAgentEvent(W1, RunIdOf(c), "lifecycle", "error")
    IN  [W2 EXCEPT !.controllers = @ \ {RunIdOf(c)},
                   !.runs[c].pc = "bodyDone",
                   !.runs[c].failed = TRUE]

\* runAgentLoop threw: lifecycle error, rethrow, then `finally`
FinishError(W, c) ==
    LET W1 == emitAgentEvent(W, RunIdOf(c), "lifecycle", "error")
    IN  [W1 EXCEPT !.controllers = @ \ {RunIdOf(c)},
                   !.runs[c].pc = "bodyDone",
                   !.runs[c].failed = TRUE]

(***************************************************************************)
(* runAgentLoop (agent-loop.ts).                                           *)
(***************************************************************************)
\* the names of toolsForRun, and the names the model may put in a tool call
KnownTools == {<<"e","x","e","c">>}
CallNames == KnownTools \cup {<<"n","o","p","e">>}

\* what tool.execute returns, and the message of the Error it throws
ToolOutput == <<"d","o","n","e">>
ToolFailure == <<"f","a","i","l">>

\* the literals of lines 303 and 306; each of their four CJK characters is
\* written as its code point
ToolErrorPrefix == <<"U+6267","U+884C","U+9519","U+8BEF",":"," ">>
UnknownToolPrefix == <<"U+672A","U+77E5","U+5DE5","U+5177",":"," ">>

\* error texts of a failing model stream
UnknownErrorText == <<"b","o","o","m">>
ErrorTexts ==
    {UnknownErrorText,
     <<"4","2","9">>,
     <<"4","0","3"," ","u","s","a","g","e"," ","l","i","m","i","t">>,
     <<"4","0","2">>,
     <<"U","n","a","u","t","h","o","r","i","z","e","d">>,
     <<"t","i","m","e","o","u","t">>,
     <<"i","n","v","a","l","i","d"," ","r","e","q","u","e","s","t"," ","f","o","r","m","a","t">>,
     <<"p","r","o","m","p","t"," ","i","s"," ","t","o","o"," ","l","o","n","g">>,
     <<"4","1","3"," ","T","o","o"," ","L","a","r","g","e">>}

\* the text of the error abortable() rejects with
AbortErrorText == <<"a","b","o","r","t","e","d">>

\* the text of an error prepareCompaction throws
CompactionErrorText == <<"s","u","m","m","a","r","i","z","e","r">>

\* retryAsync's `attempts` as runAgentLoop passes it
RetryAttempts == 3

\* the body of Agent.run rejects with errorText
Throw(W, c, errorText) == FinishError([W EXCEPT !.runs[c].error = errorText], c)

\* StartStream leaving the buffers of the turn as the last attempt filled them
StartStreamKeepingBuffers(W, c) ==
    [W EXCEPT !.runs[c].pc = "stream",
              !.runs[c].streams = Append(@, W.runs[c].turns)]

\* lines 148-159: retryAsync calls fn, which clears the turn's buffers and
\* calls streamFn
StartStream(W, c) ==
    [W EXCEPT !.runs[c].pc = "stream",
              !.runs[c].nCalls = 0,
              !.runs[c].names = <<>>,
              !.runs[c].text = FALSE,
              !.runs[c].streams = Append(@, W.runs[c].turns)]

\* lines 113-146: the loop condition, the abort check, the call of retryAsync
LoopTop(W, c) ==
    IF W.runs[c].turns >= maxTurns THEN FinishEnd(W, c)
    ELSE LET W1 == [W EXCEPT !.runs[c].turns = @ + 1] IN
         IF W1.runs[c].aborted THEN FinishEnd(W1, c)
         ELSE StartStream([W1 EXCEPT !.runs[c].attempt = 1,
                                     !.runs[c].idx = 0,
                                     !.runs[c].steered = FALSE], c)

\* lines 161-213 with the signal aborted: break, abortable(result, signal) rejects,
\* shouldRetry is false, the error is not a context overflow and is rethrown
StreamAborted(W, c) == Throw(W, c, AbortErrorText)

\* lines 165-179: text_delta then text_end
OnText(W, c) ==
    IF W.runs[c].aborted THEN StreamAborted(W, c)
    ELSE [emitAgentEvent(W, RunIdOf(c), "assistant", "delta") EXCEPT !.runs[c].text = TRUE]

\* lines 184-207: toolcall_end of a call that names `name`
OnToolCallEndOf(W, c, name) ==
    IF W.runs[c].aborted THEN StreamAborted(W, c)
    ELSE [emitAgentEvent(W, RunIdOf(c), "tool", "start")
            EXCEPT !.runs[c].nCalls = @ + 1, !.runs[c].names = Append(@, name)]

\* toolcall_end of a call that names a tool of the run
OnToolCallEnd(W, c) == OnToolCallEndOf(W, c, CHOOSE name \in KnownTools : TRUE)

\* lines 236-260: the catch of the failed retryAsync
CatchLlmError(W, c, errorText) ==
    IF isContextOverflowError(errorText) /\ ~W.runs[c].overflowCompactionAttempted
    THEN [emitAgentEvent(W, RunIdOf(c), "lifecycle", "context_overflow_compact")
            EXCEPT !.runs[c].overflowCompactionAttempted = TRUE,
                   !.runs[c].error = errorText,
                   !.runs[c].pc = "compact"]
    ELSE Throw(W, c, errorText)

\* retryAsync's catch (errors.ts lines 351-371) with runAgentLoop's shouldRetry
\* and onRetry (agent-loop.ts lines 220-233): fn threw errorText
OnStreamFailed(W, c, errorText) ==
    IF /\ W.runs[c].attempt # RetryAttempts
       /\ ~W.runs[c].aborted
       /\ isRateLimitError(errorText)
    THEN [emitAgentEvent(W, RunIdOf(c), "lifecycle", "retry")
            EXCEPT !.runs[c].pc = "retrySleep"]
    ELSE CatchLlmError(W, c, errorText)

\* retryAsync after `await sleep(delay)`: the next attempt
OnRetrySleepDone(W, c) ==
    StartStream([W EXCEPT !.runs[c].attempt = @ + 1], c)

\* lines 211-213: the stream ends and its result settles, "ok", or "error"
\* with a text that matches no pattern
OnStreamSettled(W, c, outcome) ==
    IF W.runs[c].aborted THEN StreamAborted(W, c)
    ELSE IF outcome = "error" THEN OnStreamFailed(W, c, UnknownErrorText)
    ELSE [W EXCEPT !.runs[c].pc = "appendAssistant"]

\* OnCompacted leaving the turn counter as it is
OnCompactedConsumingTurn(W, c, outcome) ==
    IF outcome = "summary"
    THEN LoopTop([W EXCEPT !.runs[c].compactionSummary = TRUE,
                           !.runs[c].error = <<>>], c)
    ELSE IF outcome = "none" THEN Throw(W, c, W.runs[c].error)
    ELSE Throw(W, c, CompactionErrorText)

\* OnCompacted rewinding the turn counter by two
OnCompactedRewindingTwice(W, c, outcome) ==
    IF outcome = "summary"
    THEN LoopTop([W EXCEPT !.runs[c].compactionSummary = TRUE,
                           !.runs[c].error = <<>>,
                           !.runs[c].turns = @ - 2], c)
    ELSE IF outcome = "none" THEN Throw(W, c, W.runs[c].error)
    ELSE Throw(W, c, CompactionErrorText)

\* lines 249-260: prepareCompaction settled with a summary, without one, or threw
OnCompacted(W, c, outcome) ==
    IF outcome = "summary"
    THEN LoopTop([W EXCEPT !.runs[c].compactionSummary = TRUE,
                           !.runs[c].error = <<>>,
                           !.runs[c].turns = @ - 1], c)
    ELSE IF outcome = "none" THEN Throw(W, c, W.runs[c].error)
    ELSE Throw(W, c, CompactionErrorText)

\* the message of the error spawnSubagent throws on a subagent session
SpawnRefusedText ==
    <<"U+5B50","U+4EE3","U+7406","U+4F1A","U+8BDD","U+4E0D","U+80FD","U+518D",
      "U+89E6","U+53D1","U+5B50","U+4EE3","U+7406">>

\* spawnSubagent without the test of the parent's session key
spawnSubagentUnchecked(W, c) ==
    IF W.nextCall >= MaxRuns THEN W
    ELSE AgentRun(W, buildSubagentSessionKey(ConfigAgentId, W.nextCall + 1),
                  W.runs[c].key)

\* Agent.spawnSubagent (lines 388-444) as a tool calls it through ToolContext
spawnSubagent(W, c) ==
    IF isSubagentSessionKey(W.runs[c].key) THEN W
    ELSE AgentRun(W, buildSubagentSessionKey(ConfigAgentId, W.nextCall + 1),
                  W.runs[c].key)

\* AfterTool leaving the for loop after every call, steered or not
AfterToolLeavingLoop(W, c) ==
    LET W1 == [emitAgentEvent(W, RunIdOf(c), "tool", "end")
                 EXCEPT !.runs[c].total = @ + 1,
                        !.runs[c].results = Append(@, W.runs[c].result)]
    IN  [W1 EXCEPT !.runs[c].pc = "appendResults"]

RECURSIVE AfterTool(_, _)

\* RunCalls throwing out of the loop for a call that names no tool of the run
RunCallsThrowingUnknown(W, c) ==
    LET name == W.runs[c].names[W.runs[c].idx]
    IN  IF name \in KnownTools THEN [W EXCEPT !.runs[c].pc = "tool"]
        ELSE Throw(W, c, UnknownToolPrefix \o name)

\* lines 295-307: the for loop at call idx; a call that names no tool of the
\* run gets its result without an await
RunCalls(W, c) ==
    LET name == W.runs[c].names[W.runs[c].idx]
    IN  IF name \in KnownTools THEN [W EXCEPT !.runs[c].pc = "tool"]
        ELSE AfterTool([W EXCEPT !.runs[c].result = UnknownToolPrefix \o name], c)

\* lines 309-342: after `result` of call idx is assigned
AfterTool(W, c) ==
    LET key == W.runs[c].key
        W1 == [emitAgentEvent(W, RunIdOf(c), "tool", "end")
                 EXCEPT !.runs[c].total = @ + 1,
                        !.runs[c].results = Append(@, W.runs[c].result)]
        steeringQueue == Get(W1.steeringQueues, key, <<>>)
    IN  IF Len(steeringQueue) > 0
        THEN [emitAgentEvent(W1, RunIdOf(c), "lifecycle", "steering")
                EXCEPT !.runs[c].steered = TRUE, !.runs[c].pc = "appendResults"]
        ELSE IF W1.runs[c].idx < W1.runs[c].nCalls
        THEN RunCalls([W1 EXCEPT !.runs[c].idx = @ + 1], c)
        ELSE [W1 EXCEPT !.runs[c].pc = "appendResults"]

\* lines 269-295: after the assistant message is appended
AfterAssistant(W, c) ==
    LET W1 == IF W.runs[c].text
              THEN emitAgentEvent(W, RunIdOf(c), "assistant", "final")
              ELSE W
    IN  IF W1.runs[c].nCalls = 0 THEN FinishEnd(W1, c)
        ELSE RunCalls([W1 EXCEPT !.runs[c].idx = 1, !.runs[c].results = <<>>], c)

\* AfterResults taking only the first queued text into the steering message
AfterResultsFirstTextOnly(W, c) ==
    LET key == W.runs[c].key
        steeringQueue == Get(W.steeringQueues, key, <<>>)
    IN  IF W.runs[c].steered /\ Len(steeringQueue) > 0
        THEN [W EXCEPT !.runs[c].steeringText = Head(steeringQueue),
                       !.steeringQueues[key] = <<>>,
                       !.runs[c].pc = "appendSteering"]
        ELSE LoopTop(W, c)

\* lines 351-368: after the tool-result message is appended
AfterResults(W, c) ==
    LET key == W.runs[c].key
        steeringQueue == Get(W.steeringQueues, key, <<>>)
    IN  IF W.runs[c].steered /\ Len(steeringQueue) > 0
        THEN [W EXCEPT !.runs[c].steeringText = Join(steeringQueue, Newline),
                       !.steeringQueues[key] = <<>>,
                       !.runs[c].pc = "appendSteering"]
        ELSE LoopTop(W, c)


(***************************************************************************)
(* Actions of the Agent.                                                   *)
(***************************************************************************)
\* Agent.run(sessionIdOrKey, userMessage)
Run(id) ==
    /\ nextCall < MaxRuns
    /\ Commit(AgentRun(World, id, <<>>))
    /\ UNCHANGED <<log, steerCount>>
    /\ UNCHANGED <<maxTurns, wakeVars, runnerVars, keyVars>>

\* Agent.run lines 528-669: history is loaded, the user message is appended,
\* runAgentLoop is entered
Prepare(c) ==
    /\ runs[c].pc = "prepare"
    /\ log' = sessionsAppend(log, runs[c].key, Msg("user", "text", <<>>, UserText, c, "run"))
    /\ Commit(LoopTop(World, c))
    /\ UNCHANGED steerCount
    /\ UNCHANGED <<maxTurns, wakeVars, runnerVars, keyVars>>

\* the stream yields a text
StreamText(c) ==
    /\ runs[c].pc = "stream"
    /\ ~runs[c].text
    /\ runs[c].nCalls = 0
    /\ Commit(OnText(World, c))
    /\ UNCHANGED <<log, steerCount>>
    /\ UNCHANGED <<maxTurns, wakeVars, runnerVars, keyVars>>

\* the stream yields a tool call
StreamToolCall(c) ==
    /\ runs[c].pc = "stream"
    /\ runs[c].nCalls < MaxCalls
    /\ Commit(OnToolCallEnd(World, c))
    /\ UNCHANGED <<log, steerCount>>
    /\ UNCHANGED <<maxTurns, wakeVars, runnerVars, keyVars>>

\* the stream ends and its result settles
StreamSettle(c) ==
    /\ runs[c].pc = "stream"
    /\ \E outcome \in {"ok", "error"} : Commit(OnStreamSettled(World, c, outcome))
    /\ UNCHANGED <<log, steerCount>>
    /\ UNCHANGED <<maxTurns, wakeVars, runnerVars, keyVars>>

\* the stream yields a tool call that names `name`
StreamToolCallOf(c, name) ==
    /\ runs[c].pc = "stream"
    /\ runs[c].nCalls < MaxCalls
    /\ Commit(OnToolCallEndOf(World, c, name))
    /\ UNCHANGED <<log, steerCount>>
    /\ UNCHANGED <<maxTurns, wakeVars, runnerVars, keyVars>>

\* the provider rejects the request of the stream with an error whose text
\* is errorText, before the stream yields an event
StreamFails(c, errorText) ==
    /\ runs[c].pc = "stream"
    /\ ~runs[c].text
    /\ runs[c].nCalls = 0
    /\ Commit(OnStreamFailed(World, c, errorText))
    /\ UNCHANGED <<log, steerCount>>
    /\ UNCHANGED <<maxTurns, wakeVars, runnerVars, keyVars>>

\* the stream throws errorText, or its result rejects with it, after the
\* stream has yielded events (lines 161-213)
StreamBreaks(c, errorText) ==
    /\ runs[c].pc = "stream"
    /\ runs[c].text \/ runs[c].nCalls > 0
    /\ Commit(OnStreamFailed(World, c, errorText))
    /\ UNCHANGED <<log, steerCount>>
    /\ UNCHANGED <<maxTurns, wakeVars, runnerVars, keyVars>>

\* the backoff sleep of retryAsync ends
RetrySleepDone(c) ==
    /\ runs[c].pc = "retrySleep"
    /\ Commit(OnRetrySleepDone(World, c))
    /\ UNCHANGED <<log, steerCount>>
    /\ UNCHANGED <<maxTurns, wakeVars, runnerVars, keyVars>>

\* what prepareCompaction does: it yields a summary, yields none, or throws
CompactionOutcomes == {"summary", "none", "throw"}

\* prepareCompaction settles
CompactionSettles(c, outcome) ==
    /\ runs[c].pc = "compact"
    /\ Commit(OnCompacted(World, c, outcome))
    /\ UNCHANGED <<log, steerCount>>
    /\ UNCHANGED <<maxTurns, wakeVars, runnerVars, keyVars>>

\* appendMessage(assistantMsg) returns
AssistantAppended(c) ==
    /\ runs[c].pc = "appendAssistant"
    /\ log' = sessionsAppend(log, runs[c].key,
                Msg("assistant", "assistant", ToolIds(c, runs[c].turns, runs[c].nCalls),
                    IF runs[c].text THEN AssistantText ELSE <<>>, c, "loop"))
    /\ Commit(AfterAssistant(World, c))
    /\ UNCHANGED steerCount
    /\ UNCHANGED <<maxTurns, wakeVars, runnerVars, keyVars>>

\* tool.execute of the current call settles; the tool may have called
\* spawnSubagent, whose error on a subagent session it lets through
ToolDone(c) ==
    /\ runs[c].pc = "tool"
    /\ \E spawns \in BOOLEAN :
        /\ spawns => /\ ~runs[c].aborted
                      /\ (nextCall < MaxRuns \/ isSubagentSessionKey(runs[c].key))
        /\ LET result == IF spawns /\ isSubagentSessionKey(runs[c].key)
                         THEN ToolErrorPrefix \o SpawnRefusedText
                         ELSE ToolOutput
           IN  Commit(AfterTool([(IF spawns THEN spawnSubagent(World, c) ELSE World)
                                   EXCEPT !.runs[c].result = result], c))
    /\ UNCHANGED <<log, steerCount>>
    /\ UNCHANGED <<maxTurns, wakeVars, runnerVars, keyVars>>

\* what tool.execute does: it returns its output or throws
ToolOutcomes == {"return", "throw"}

\* lines 300-304: tool.execute of the current call returns or throws
ToolSettles(c, outcome) ==
    /\ runs[c].pc = "tool"
    /\ LET result == IF outcome = "return" THEN ToolOutput
                     ELSE ToolErrorPrefix \o ToolFailure
       IN  Commit(AfterTool([World EXCEPT !.runs[c].result = result], c))
    /\ UNCHANGED <<log, steerCount>>
    /\ UNCHANGED <<maxTurns, wakeVars, runnerVars, keyVars>>

\* appendMessage(resultMsg) returns
ResultsAppended(c) ==
    /\ runs[c].pc = "appendResults"
    /\ log' = sessionsAppend(log, runs[c].key,
                Msg("user", "tool_result", ToolIds(c, runs[c].turns, runs[c].idx),
                    runs[c].results, c, "loop"))
    /\ Commit(AfterResults(World, c))
    /\ UNCHANGED steerCount
    /\ UNCHANGED <<maxTurns, wakeVars, runnerVars, keyVars>>

\* appendMessage(steeringMsg) returns
SteeringAppended(c) ==
    /\ runs[c].pc = "appendSteering"
    /\ log' = sessionsAppend(log, runs[c].key,
                Msg("user", "text", <<>>, runs[c].steeringText, c, "loop"))
    /\ Commit(LoopTop(World, c))
    /\ UNCHANGED steerCount
    /\ UNCHANGED <<maxTurns, wakeVars, runnerVars, keyVars>>

\* the global lane's wrapper resumes after the task body settled
GlobalSettle(c) ==
    /\ runs[c].pc = "bodyDone"
    /\ Commit(laneTaskSettled([World EXCEPT !.runs[c].pc = "outerDone"], resolveGlobalLane))
    /\ UNCHANGED <<log, steerCount>>
    /\ UNCHANGED <<maxTurns, wakeVars, runnerVars, keyVars>>

\* the session lane's wrapper resumes after the global-lane promise settled
SessionSettle(c) ==
    /\ runs[c].pc = "outerDone"
    /\ Commit(laneTaskSettled(
                [World EXCEPT !.runs[c].pc = IF runs[c].parent = <<>> THEN "done" ELSE "notify"],
                resolveSessionLane(runs[c].key)))
    /\ UNCHANGED <<log, steerCount>>
    /\ UNCHANGED <<maxTurns, wakeVars, runnerVars, keyVars>>

\* spawnSubagent's continuation of the child's run promise (lines 399-439)
SubagentNotify(c) ==
    /\ runs[c].pc = "notify"
    /\ IF runs[c].failed
       THEN /\ Commit([emitAgentEvent(World, runs[c].key, "subagent", "error")
                        EXCEPT !.runs[c].pc = "done"])
            /\ UNCHANGED log
       ELSE /\ Commit([emitAgentEvent(World, RunIdOf(c), "subagent", "summary")
                        EXCEPT !.runs[c].pc = "done"])
            /\ \E cleanup \in {"keep", "delete"} :
                 LET appended == sessionsAppend(log, runs[c].parent,
                                    Msg("user", "text", <<>>, SummaryText, c, "subagent"))
                 IN  log' = IF cleanup = "delete" THEN Put(appended, runs[c].key, <<>>)
                            ELSE appended
    /\ UNCHANGED steerCount
    /\ UNCHANGED <<maxTurns, wakeVars, runnerVars, keyVars>>

\* Agent.steer(sessionKey, text)
Steer(id) ==
    /\ steerCount < MaxSteers
    /\ steerCount' = steerCount + 1
    /\ steeringQueues' = Put(steeringQueues, id, Append(Get(steeringQueues, id, <<>>), SteerText(steerCount + 1)))
    /\ UNCHANGED <<lanes, runs, nextCall, events, seqByRun, log, controllers, tasks>>
    /\ UNCHANGED <<maxTurns, wakeVars, runnerVars, keyVars>>

\* what callers pass to abort(runId?): a run id, or <<>> for none
AbortArgs == {RunIdOf(c) : c \in Runs} \cup {<<>>}

\* the controllers abort(runId?) signals
AbortTargets(target) ==
    IF target = <<>> THEN controllers ELSE {target} \cap controllers

\* Agent.abort(runId?)
Abort(target) ==
    /\ \E c \in Runs : RunIdOf(c) \in AbortTargets(target) /\ ~runs[c].aborted
    /\ runs' = [c \in Runs |->
                  IF RunIdOf(c) \in AbortTargets(target)
                  THEN [runs[c] EXCEPT !.aborted = TRUE] ELSE runs[c]]
    /\ UNCHANGED <<lanes, nextCall, events, seqByRun, log, steeringQueues, controllers,
                   steerCount, tasks>>
    /\ UNCHANGED <<maxTurns, wakeVars, runnerVars, keyVars>>

(***************************************************************************)
(* Heartbeat wake coalescer (heartbeat.ts, class HeartbeatWake).           *)
(***************************************************************************)
\* reasons and sources callers pass to request(); "" stands for no source
RequestReasons == {"requested", "interval", "exec"}
RequestSources == {"", "cron:1"}

\* what the handler does: it returns a result or throws
HandlerOutcomes == {"ok", "skipped", "requests-in-flight", "error", "throw"}

coalesceMs == 250
retryMs == 1000

priority(reason) ==
    CASE reason = "exec" -> 4
      [] reason = "cron" -> 3
      [] reason = "interval" -> 2
      [] reason = "retry" -> 1
      [] OTHER -> 0

mergeReason(current, incoming) ==
    IF priority(incoming) > priority(current) THEN incoming ELSE current

\* the wake side of the state that HeartbeatWake's methods read and write
WakeWorld == [state |-> wake, timeouts |-> timeouts]

\* timer handles of the host
Handles == 1..(MaxRequests + MaxInvocations)

\* setTimeout: a fresh handle, pending in the host until it fires or is cleared
FreshHandle(T) == CHOOSE h \in 1..(Cardinality(DOMAIN T.timeouts) + 1) : h \notin DOMAIN T.timeouts

\* schedule arming a timer although one is armed
scheduleOverArmed(T, delayMs) ==
    IF T.state.running THEN [T EXCEPT !.state.scheduled = TRUE]
    ELSE LET h == FreshHandle(T)
         IN  [T EXCEPT !.state.timer = h, !.timeouts = Put(T.timeouts, h, delayMs)]

\* schedule arming a timer although an execution is in flight
scheduleWhileRunning(T, delayMs) ==
    IF T.state.timer # 0 THEN T
    ELSE LET h == FreshHandle(T)
         IN  [T EXCEPT !.state.timer = h, !.timeouts = Put(T.timeouts, h, delayMs)]

schedule(T, delayMs) ==
    IF T.state.running THEN [T EXCEPT !.state.scheduled = TRUE]
    ELSE IF T.state.timer # 0 THEN T
    ELSE LET h == FreshHandle(T)
         IN  [T EXCEPT !.state.timer = h, !.timeouts = Put(T.timeouts, h, delayMs)]

request(T, reason, source) ==
    LET T1 == [T EXCEPT !.state.pendingReason = mergeReason(@, reason),
                        !.state.pendingSource = IF source # "" THEN source ELSE @]
    IN  schedule(T1, coalesceMs)

\* execute() up to `await this.handler([], request)`
executeStart(T) ==
    [T EXCEPT !.state.timer = 0,
              !.state.running = TRUE,
              !.state.pendingReason = "requested",
              !.state.pendingSource = "",
              !.state.scheduled = FALSE]

\* executeFinish whose `finally` drops the scheduled flag without rescheduling
executeFinishForgetting(T, outcome) ==
    LET T1 == IF outcome = "requests-in-flight"
              THEN schedule([T EXCEPT !.state.pendingReason = "retry"], retryMs)
              ELSE T
    IN  [T1 EXCEPT !.state.running = FALSE, !.state.scheduled = FALSE]

\* executeFinish whose `finally` only clears `running`
executeFinishLeavingScheduled(T, outcome) ==
    LET T1 == IF outcome = "requests-in-flight"
              THEN schedule([T EXCEPT !.state.pendingReason = "retry"], retryMs)
              ELSE T
    IN  [T1 EXCEPT !.state.running = FALSE]

\* execute() after the handler settled: the rest of `try`, then `finally`
executeFinish(T, outcome) ==
    LET T1 == IF outcome = "requests-in-flight"
              THEN schedule([T EXCEPT !.state.pendingReason = "retry"], retryMs)
              ELSE T
        T2 == [T1 EXCEPT !.state.running = FALSE]
    IN  IF T2.state.scheduled
        THEN schedule([T2 EXCEPT !.state.scheduled = FALSE], 0)
        ELSE T2

stop(T) ==
    [T EXCEPT !.timeouts = IF T.state.timer # 0 THEN Del(@, T.state.timer) ELSE @,
              !.state.timer = 0,
              !.state.scheduled = FALSE]

CommitWake(T) ==
    /\ wake' = T.state
    /\ timeouts' = T.timeouts

\* HeartbeatWake.request(req), whoever calls it
WakeRequested(reason, source) ==
    /\ wakeObs.requests < MaxRequests
    /\ CommitWake(request(WakeWorld, reason, source))
    /\ wakeObs' = [wakeObs EXCEPT
                     !.requests = @ + 1,
                     !.bursts = IF ~wake.running /\ wake.timer = 0 THEN @ + 1 ELSE @,
                     !.during = IF Len(handler) > 0 THEN TRUE ELSE @,
                     !.arrivedDuring = IF Len(handler) > 0 THEN @ + 1 ELSE @,
                     !.since = IF @ = "" THEN reason ELSE mergeReason(@, reason)]
    /\ UNCHANGED handler

\* HeartbeatWake.request(req) called from outside the runner
Request(reason, source) ==
    /\ WakeRequested(reason, source)
    /\ UNCHANGED <<agentVars, runnerVars, keyVars>>

\* a pending timeout fires: execute() runs and invokes the handler
TimerFire(h) ==
    /\ h \in DOMAIN timeouts
    /\ wakeObs.invoked < MaxInvocations
    /\ CommitWake(executeStart([WakeWorld EXCEPT !.timeouts = Del(@, h)]))
    /\ handler' = Append(handler, [reason |-> wake.pendingReason,
                                   source |-> wake.pendingSource])
    /\ wakeObs' = [wakeObs EXCEPT !.invoked = @ + 1,
                                  !.expected = wakeObs.since,
                                  !.since = ""]
    /\ UNCHANGED <<agentVars, runnerVars, keyVars>>

\* the handler invocation in flight settles
HandlerSettle(outcome) ==
    /\ Len(handler) > 0
    /\ CommitWake(executeFinish(WakeWorld, outcome))
    /\ handler' = Tail(handler)
    /\ wakeObs' = [wakeObs EXCEPT
                     !.followUps = IF wakeObs.during THEN @ + 1 ELSE @,
                     !.retries = IF ~wakeObs.during /\ outcome = "requests-in-flight"
                                 THEN @ + 1 ELSE @,
                     !.during = FALSE]
    /\ UNCHANGED <<agentVars, runnerVars, keyVars>>

\* HeartbeatWake.stop()
Stop ==
    /\ wakeObs.stops < MaxStops
    /\ CommitWake(stop(WakeWorld))
    /\ wakeObs' = [wakeObs EXCEPT !.stops = @ + 1]
    /\ UNCHANGED handler
    /\ UNCHANGED <<agentVars, runnerVars, keyVars>>

(***************************************************************************)
(* Callers of the command queue other than the Agent (command-queue.ts).   *)
(***************************************************************************)
\* the lanes these callers use
TaskLanes == {resolveGlobalLane, <<"a","u","x">>}

\* the limits they call setLaneConcurrency with
LaneLimits == {1, 2, 3}

\* what their tasks throw or reject with
TaskErrors == {<<"e","1">>, <<"e","2">>}

\* what a task does when called: <<>> for returning a promise, else the error
\* it throws before its first await
TaskThrows == {<<>>, <<"e","1">>}

\* opts.onWait: none (or one that returns), or one that throws
OnWaitChoices == {"none", "throws"}

\* the value a task's promise resolves with
TaskValue == <<"v">>

\* how a task's promise settles
TaskOutcomes ==
    {[outcome |-> "resolve", value |-> TaskValue]}
        \cup {[outcome |-> "reject", value |-> e] : e \in TaskErrors}

\* enqueueInLane(lane, task, opts)
EnqueueTask(lane, error, onWait) ==
    /\ Len(tasks) < MaxTasks
    /\ Commit(Elapsed(enqueueTask(World, lane, error, onWait)))
    /\ UNCHANGED <<log, steerCount>>
    /\ UNCHANGED <<maxTurns, wakeVars, runnerVars, keyVars>>

\* the promise task() returned settles
TaskSettles(t, settled) ==
    /\ t \in DOMAIN tasks
    /\ tasks[t].pc = "running"
    /\ tasks' = [tasks EXCEPT ![t].pc = "settled",
                              ![t].outcome = settled.outcome,
                              ![t].value = settled.value]
    /\ UNCHANGED <<lanes, runs, nextCall, events, seqByRun, log, steeringQueues,
                   controllers, steerCount>>
    /\ UNCHANGED <<maxTurns, wakeVars, runnerVars, keyVars>>

\* drainLane's wrapper resumes after `await entry.task()`
WrapperResumes(t) ==
    /\ t \in DOMAIN tasks
    /\ tasks[t].pc = "settled"
    /\ Commit(IF tasks[t].outcome = "resolve" THEN wrapperTry(World, t, tasks[t].value)
              ELSE wrapperCatch(World, t, tasks[t].value))
    /\ UNCHANGED <<log, steerCount>>
    /\ UNCHANGED <<maxTurns, wakeVars, runnerVars, keyVars>>

\* the caller's continuation of the promise enqueueInLane returned runs
CallerObserves(t) ==
    /\ t \in DOMAIN tasks
    /\ tasks[t].promise # "pending"
    /\ ~tasks[t].observed
    /\ tasks' = [tasks EXCEPT ![t].observed = TRUE]
    /\ UNCHANGED <<lanes, runs, nextCall, events, seqByRun, log, steeringQueues,
                   controllers, steerCount>>
    /\ UNCHANGED <<maxTurns, wakeVars, runnerVars, keyVars>>

\* setLaneConcurrency(lane, maxConcurrent); an exception of drainLane reaches
\* the caller
SetConcurrency(lane, maxConcurrent) ==
    /\ Commit([setLaneConcurrency(World, lane, maxConcurrent) EXCEPT !.thrown = FALSE])
    /\ UNCHANGED <<log, steerCount>>
    /\ UNCHANGED <<maxTurns, wakeVars, runnerVars, keyVars>>

(***************************************************************************)
(* Heartbeat runner (heartbeat.ts, class HeartbeatManager).                *)
(***************************************************************************)
MinuteMs == 60 * 1000
HourMs == 60 * MinuteMs
DayMs == 24 * HourMs

\* null in a field that holds a time; times are not negative
NullMs == 0 - 1

\* null in a field that holds a text: the code stores no empty text there
NullText == <<>>

\* String.prototype.split for a one-character separator
RECURSIVE Split(_, _)
Split(s, sep) ==
    IF \A i \in DOMAIN s : s[i] # sep THEN <<s>>
    ELSE LET k == CHOOSE i \in DOMAIN s : s[i] = sep /\ \A j \in 1..(i - 1) : s[j] # sep
         IN  <<SubSeq(s, 1, k - 1)>> \o Split(SubSeq(s, k + 1, Len(s)), sep)

DigitValue(ch) ==
    CASE ch = "0" -> 0 [] ch = "1" -> 1 [] ch = "2" -> 2 [] ch = "3" -> 3
      [] ch = "4" -> 4 [] ch = "5" -> 5 [] ch = "6" -> 6 [] ch = "7" -> 7
      [] ch = "8" -> 8 [] ch = "9" -> 9

\* Number(s) of a string of decimal digits
RECURSIVE Number(_)
Number(s) ==
    IF s = <<>> THEN 0
    ELSE 10 * Number(SubSeq(s, 1, Len(s) - 1)) + DigitValue(s[Len(s)])

\* "HH:MM".split(":").map(Number) as hours * 60 + minutes
MinutesOf(hhmm) ==
    LET parts == Split(hhmm, ":") IN Number(parts[1]) * 60 + Number(parts[2])

\* new Date(nowMs).getHours() * 60 + getMinutes(), the local zone being UTC
CurrentMinutes(nowMs) ==
    ((nowMs % DayMs) \div HourMs) * 60 + ((nowMs % HourMs) \div MinuteMs)

\* config.activeHours values the manager is constructed with; `configured`
\* is FALSE for none
NoActiveHours == [configured |-> FALSE, start |-> <<>>, end |-> <<>>]
ActiveHoursChoices ==
    {NoActiveHours,
     [configured |-> TRUE, start |-> <<"0","8",":","0","0">>, end |-> <<"2","2",":","0","0">>],
     [configured |-> TRUE, start |-> <<"2","2",":","0","0">>, end |-> <<"0","6",":","0","0">>],
     [configured |-> TRUE, start |-> <<"0","6",":","0","0">>, end |-> <<"0","6",":","0","0">>]}

\* the defaults of the constructor
DefaultIntervalMs == 30 * 60 * 1000
DefaultDuplicateWindowMs == 24 * 60 * 60 * 1000

\* the numbers of callbacks registered with onTasks
CallbackCounts == {1, 2}

\* the instants at which the host's clock is read: on the second day of the
\* epoch 07:59, 08:00 and 22:00, on the third 05:59, 06:00, 07:59 and 08:00
At(day, hours, minutes) == day * DayMs + hours * HourMs + minutes * MinuteMs
Instants ==
    {At(1, 7, 59), At(1, 8, 0), At(1, 22, 0),
     At(2, 5, 59), At(2, 6, 0), At(2, 7, 59), At(2, 8, 0)}

\* the texts a callback's result carries; the empty one stands for none
CallbackTexts == {<<>>, <<"h","i">>, <<"h","i"," ">>, <<"y","o">>}

\* what a callback does: it returns a result, with or without text, or throws
CallbackOutcomes ==
    {[throws |-> TRUE, text |-> <<>>]}
        \cup {[throws |-> FALSE, text |-> t] : t \in CallbackTexts}

\* the reasons of the requests runOnce is called with
RunReasons == {"interval", "exec"}

\* what parseTasks yields: whether there are tasks that are not completed
PendingChoices == BOOLEAN

\* isWithinActiveHours with the end of the window inside it
isWithinActiveHoursToEnd(nowMs) ==
    LET activeHours == hbConfig.activeHours IN
    IF ~activeHours.configured THEN TRUE
    ELSE LET currentMinutes == CurrentMinutes(nowMs)
             startMinutes == MinutesOf(activeHours.start)
             endMinutes == MinutesOf(activeHours.end)
         IN  IF endMinutes <= startMinutes
             THEN currentMinutes >= startMinutes \/ currentMinutes <= endMinutes
             ELSE currentMinutes >= startMinutes /\ currentMinutes <= endMinutes

isWithinActiveHours(nowMs) ==
    LET activeHours == hbConfig.activeHours IN
    IF ~activeHours.configured THEN TRUE
    ELSE LET currentMinutes == CurrentMinutes(nowMs)
             startMinutes == MinutesOf(activeHours.start)
             endMinutes == MinutesOf(activeHours.end)
         IN  IF endMinutes <= startMinutes
             THEN currentMinutes >= startMinutes \/ currentMinutes < endMinutes
             ELSE currentMinutes >= startMinutes /\ currentMinutes < endMinutes

\* the runner's side of the state that HeartbeatManager's methods read and write
RunnerWorld == [state |-> runner, timeouts |-> runnerTimeouts]

\* `!x` of a time field: null and 0 are falsy
FalsyMs(x) == x = NullMs \/ x = 0

isDuplicateMessage(H, text, nowMs) ==
    IF H.state.lastText = NullText \/ FalsyMs(H.state.lastTextAt) THEN FALSE
    ELSE IF nowMs - H.state.lastTextAt >= hbConfig.duplicateWindowMs THEN FALSE
    ELSE Trim(text) = Trim(H.state.lastText)

\* scheduleNext() where config.intervalMs is `intervalMs`: Date.now() is the
\* clock; the timeout is due after `delay`; the handle of a timeout armed
\* before is overwritten, not cleared
scheduleNextEvery(H, intervalMs) ==
    IF ~H.state.started THEN H
    ELSE LET now == clock
             lastRun == IF H.state.lastRunAt = NullMs THEN now ELSE H.state.lastRunAt
             nextDue == lastRun + intervalMs
             delay == Max(0, nextDue - now)
             h == CHOOSE x \in 1..(Cardinality(DOMAIN H.timeouts) + 1) :
                     x \notin DOMAIN H.timeouts
         IN  [H EXCEPT !.state.nextDueMs = nextDue,
                       !.state.timer = h,
                       !.timeouts = Put(H.timeouts, h, now + delay)]

scheduleNext(H) == scheduleNextEvery(H, hbConfig.intervalMs)

\* a call of runOnce: where it is (pc), its `now`, its request's reason, the
\* callback it awaits, resultText, the callbacks it has invoked, its result
NewInvocation(now, reason) ==
    [pc |-> "parse", now |-> now, reason |-> reason, idx |-> 0, resultText |-> <<>>,
     called |-> 0, status |-> "", why |-> "", text |-> <<>>]

Returned(inv, status, why, text) ==
    [inv EXCEPT !.pc = "returned", !.status = status, !.why = why, !.text = text]

\* runOnce lines 334-342: up to `await this.parseTasks()`
runOnceStart(now, reason) ==
    IF ~isWithinActiveHours(now)
    THEN Returned(NewInvocation(now, reason), "skipped", "outside-active-hours", <<>>)
    ELSE NewInvocation(now, reason)

\* runOnceFinish recording every text, duplicate or not
runOnceFinishRecording(H, inv) ==
    LET H1 == [H EXCEPT !.state.lastRunAt = inv.now]
        H2 == IF inv.resultText # <<>>
              THEN [H1 EXCEPT !.state.lastText = inv.resultText,
                              !.state.lastTextAt = inv.now]
              ELSE H1
    IN  [world |-> scheduleNext(H2), inv |-> Returned(inv, "ok", "", inv.resultText)]

\* runOnce lines 365-382: duplicate suppression, state update, scheduling
runOnceFinish(H, inv) ==
    IF inv.resultText # <<>> /\ isDuplicateMessage(H, inv.resultText, inv.now)
    THEN [world |-> scheduleNext([H EXCEPT !.state.lastRunAt = inv.now]),
          inv |-> Returned(inv, "skipped", "duplicate-message", <<>>)]
    ELSE LET H1 == [H EXCEPT !.state.lastRunAt = inv.now]
             H2 == IF inv.resultText # <<>>
                   THEN [H1 EXCEPT !.state.lastText = inv.resultText,
                                   !.state.lastTextAt = inv.now]
                   ELSE H1
         IN  [world |-> scheduleNext(H2), inv |-> Returned(inv, "ok", "", inv.resultText)]

\* runOnce lines 343-356: parseTasks settled
runOnceParsed(H, inv, pending) ==
    IF ~pending /\ inv.reason # "exec"
    THEN [world |-> scheduleNext([H EXCEPT !.state.lastRunAt = inv.now]),
          inv |-> Returned(inv, "skipped", "no-pending-tasks", <<>>)]
    ELSE IF hbConfig.callbacks = 0 THEN runOnceFinish(H, inv)
    ELSE [world |-> H, inv |-> [inv EXCEPT !.pc = "callback", !.idx = 1, !.called = 1]]

\* runOnce lines 356-363: the awaited callback settled
runOnceCallback(H, inv, outcome) ==
    LET inv1 == IF ~outcome.throws /\ outcome.text # <<>>
                THEN [inv EXCEPT !.resultText = outcome.text]
                ELSE inv
    IN  IF inv1.idx < hbConfig.callbacks
        THEN [world |-> H, inv |-> [inv1 EXCEPT !.idx = @ + 1, !.called = @ + 1]]
        ELSE runOnceFinish(H, inv1)

CommitRunner(H) ==
    /\ runner' = H.state
    /\ runnerTimeouts' = H.timeouts

\* HeartbeatManager.start()
Start ==
    /\ hbConfig.enabled /\ ~runner.started
    /\ CommitRunner(scheduleNext([RunnerWorld EXCEPT !.state.started = TRUE]))
    /\ runnerObs' = [runnerObs EXCEPT !.quiet = FALSE]
    /\ UNCHANGED <<clock, hbConfig, invocations>>
    /\ UNCHANGED <<agentVars, wakeVars, keyVars>>

\* time passes
Tick(t) ==
    /\ t > clock
    /\ clock' = t
    /\ UNCHANGED <<hbConfig, runner, runnerTimeouts, invocations, runnerObs>>
    /\ UNCHANGED <<agentVars, wakeVars, keyVars>>

\* runOnce(request) is called, by trigger() or by the coalescer's handler, one
\* call after the other
RunOnceCalled(reason) ==
    /\ Len(invocations) < MaxHeartbeatRuns
    /\ \A i \in DOMAIN invocations : invocations[i].pc = "returned"
    /\ invocations' = Append(invocations, runOnceStart(clock, reason))
    /\ UNCHANGED <<clock, hbConfig, runner, runnerTimeouts, runnerObs>>
    /\ UNCHANGED <<agentVars, wakeVars, keyVars>>

\* parseTasks of invocation i settles
ParseSettles(i, pending) ==
    /\ i \in DOMAIN invocations
    /\ invocations[i].pc = "parse"
    /\ LET r == runOnceParsed(RunnerWorld, invocations[i], pending)
       IN  /\ CommitRunner(r.world)
           /\ invocations' = [invocations EXCEPT ![i] = r.inv]
    /\ UNCHANGED <<clock, hbConfig, runnerObs>>
    /\ UNCHANGED <<agentVars, wakeVars, keyVars>>

\* the callback invocation i awaits settles
CallbackSettles(i, outcome) ==
    /\ i \in DOMAIN invocations
    /\ invocations[i].pc = "callback"
    /\ LET r == runOnceCallback(RunnerWorld, invocations[i], outcome)
       IN  /\ CommitRunner(r.world)
           /\ invocations' = [invocations EXCEPT ![i] = r.inv]
    /\ UNCHANGED <<clock, hbConfig, runnerObs>>
    /\ UNCHANGED <<agentVars, wakeVars, keyVars>>

(***************************************************************************)
(* The HeartbeatManager with its coalescer: the runner's timer issues wake *)
(* requests, the coalescer's handler is runOnce, trigger() calls runOnce   *)
(* itself.                                                                 *)
(***************************************************************************)
\* updateConfig calls in one behaviour
MaxUpdates == 1

\* the partial configurations updateConfig is called with; NullMs and "unset"
\* stand for a property that is not given
UpdateChoices ==
    {[intervalMs |-> HourMs, enabled |-> "unset"],
     [intervalMs |-> NullMs, enabled |-> "false"],
     [intervalMs |-> NullMs, enabled |-> "true"]}

\* the instants at which the manager's host reads its clock, the reasons
\* requestNow is called with and what the one callback does
ManagerInstants == {At(1, 7, 59), At(1, 8, 0), At(1, 22, 0)}
RequestNowReasons == {"requested"}
ManagerCallbackOutcomes == {[throws |-> FALSE, text |-> <<"h","i">>]}

\* clearTimeout(this.state.timer) where the handle is set
clearRunnerTimer(H) ==
    IF H.state.timer # 0 THEN [H EXCEPT !.timeouts = Del(@, H.state.timer)] ELSE H

\* HeartbeatManager.stop() on the runner's side
stopRunner(H) ==
    [clearRunnerTimer(H) EXCEPT !.state.started = FALSE, !.state.timer = 0]

\* updateConfig without its final rescheduling
updateConfigKeepingTimer(H, update) ==
    LET intervalMs == IF update.intervalMs # NullMs THEN update.intervalMs
                      ELSE hbConfig.intervalMs
    IN  IF update.enabled = "false" THEN stopRunner(H)
        ELSE IF update.enabled = "true" THEN scheduleNextEvery(H, intervalMs)
        ELSE H

\* HeartbeatManager.updateConfig on the runner's side; config.enabled and
\* config.intervalMs are the values after the assignments
updateConfig(H, update) ==
    LET intervalMs == IF update.intervalMs # NullMs THEN update.intervalMs
                      ELSE hbConfig.intervalMs
        enabled == IF update.enabled = "unset" THEN hbConfig.enabled
                   ELSE update.enabled = "true"
        H1 == IF update.enabled = "false" THEN stopRunner(H)
              ELSE IF update.enabled = "true" THEN scheduleNextEvery(H, intervalMs)
              ELSE H
    IN  IF H1.state.started /\ enabled
        THEN scheduleNextEvery(clearRunnerTimer(H1), intervalMs)
        ELSE H1

\* HeartbeatManager.stop()
ManagerStop ==
    /\ wakeObs.stops < MaxStops
    /\ CommitRunner(stopRunner(RunnerWorld))
    /\ CommitWake(stop(WakeWorld))
    /\ wakeObs' = [wakeObs EXCEPT !.stops = @ + 1]
    /\ runnerObs' = [runnerObs EXCEPT !.quiet = TRUE]
    /\ UNCHANGED <<clock, hbConfig, invocations, handler>>
    /\ UNCHANGED <<agentVars, keyVars>>

\* HeartbeatManager.updateConfig(config)
UpdateConfig(update) ==
    /\ runnerObs.updates < MaxUpdates
    /\ update.enabled = "false" => wakeObs.stops < MaxStops
    /\ CommitRunner(updateConfig(RunnerWorld, update))
    /\ hbConfig' = [hbConfig EXCEPT
                      !.intervalMs = IF update.intervalMs # NullMs
                                     THEN update.intervalMs ELSE @,
                      !.enabled = IF update.enabled = "unset" THEN @
                                  ELSE update.enabled = "true"]
    /\ IF update.enabled = "false"
       THEN /\ CommitWake(stop(WakeWorld))
            /\ wakeObs' = [wakeObs EXCEPT !.stops = @ + 1]
       ELSE UNCHANGED <<wake, timeouts, wakeObs>>
    /\ runnerObs' = [runnerObs EXCEPT !.updates = @ + 1,
                                      !.quiet = IF update.enabled = "false" THEN TRUE ELSE @]
    /\ UNCHANGED <<clock, invocations, handler>>
    /\ UNCHANGED <<agentVars, keyVars>>

\* a timeout armed by scheduleNext fires when it is due: its callback issues
\* the interval wake request
RunnerTimerFire(h) ==
    /\ h \in DOMAIN runnerTimeouts
    /\ runnerTimeouts[h] <= clock
    /\ runnerTimeouts' = Del(runnerTimeouts, h)
    /\ WakeRequested("interval", "")
    /\ UNCHANGED <<clock, hbConfig, runner, invocations, runnerObs>>
    /\ UNCHANGED <<agentVars, keyVars>>

\* HeartbeatManager.requestNow(reason, source)
RequestNow(reason, source) ==
    /\ WakeRequested(reason, source)
    /\ runnerObs' = [runnerObs EXCEPT !.quiet = FALSE]
    /\ UNCHANGED <<clock, hbConfig, runner, runnerTimeouts, invocations>>
    /\ UNCHANGED <<agentVars, keyVars>>

\* HeartbeatManager.trigger(): runOnce is called at once, whatever is in flight
Trigger ==
    /\ Len(invocations) < MaxHeartbeatRuns
    /\ invocations' = Append(invocations, runOnceStart(clock, "requested"))
    /\ runnerObs' = [runnerObs EXCEPT !.quiet = FALSE]
    /\ UNCHANGED <<clock, hbConfig, runner, runnerTimeouts>>
    /\ UNCHANGED <<agentVars, wakeVars, keyVars>>

\* the coalescer's timeout fires: execute() calls the handler, which is
\* runOnce(request); `run` is the place of that call in `invocations`
WakeRuns(h) ==
    /\ h \in DOMAIN timeouts
    /\ wakeObs.invoked < MaxInvocations
    /\ Len(invocations) < MaxHeartbeatRuns
    /\ CommitWake(executeStart([WakeWorld EXCEPT !.timeouts = Del(@, h)]))
    /\ handler' = Append(handler, [reason |-> wake.pendingReason,
                                   source |-> wake.pendingSource,
                                   run |-> Len(invocations) + 1])
    /\ invocations' = Append(invocations, runOnceStart(clock, wake.pendingReason))
    /\ wakeObs' = [wakeObs EXCEPT !.invoked = @ + 1,
                                  !.expected = wakeObs.since,
                                  !.since = ""]
    /\ UNCHANGED <<clock, hbConfig, runner, runnerTimeouts, runnerObs>>
    /\ UNCHANGED <<agentVars, keyVars>>

\* the runOnce call the coalescer awaits has returned: execute() resumes with
\* its result
RunOnceReturns ==
    /\ Len(handler) > 0
    /\ LET inv == invocations[handler[1].run]
       IN  /\ inv.pc = "returned"
           /\ CommitWake(executeFinish(WakeWorld,
                            IF inv.status = "skipped" THEN inv.why ELSE inv.status))
    /\ handler' = Tail(handler)
    /\ wakeObs' = [wakeObs EXCEPT
                     !.followUps = IF wakeObs.during THEN @ + 1 ELSE @,
                     !.during = FALSE]
    /\ UNCHANGED runnerVars
    /\ UNCHANGED <<agentVars, keyVars>>

(***************************************************************************)
(* Callers of the session-key functions (session-key.ts).                  *)
(***************************************************************************)
\* a run of n characters "a"
Fill(n) == [i \in 1..n |-> "a"]

\* agent ids of at most a few characters
ShortAgentIds ==
    { <<>>, <<" ">>, <<"m","a","i","n">>, <<"B","o","t">>, <<"_","a">>, <<"-","a">>,
      <<"a"," ","b">>, <<"a","!","?","b">>, <<"-">>, <<"_">>, <<"A","_","b","-">>,
      <<" ","x"," ">>, <<"a",":","b">> }

\* agent ids around the 64 characters VALID_ID_RE and slice(0, 64) allow
LongAgentIds ==
    { prefix \o Fill(n) \o suffix :
        prefix \in {<<>>, <<"_">>, <<"-">>},
        n \in (MaxFill - 3)..MaxFill,
        suffix \in {<<>>, <<"-">>, <<"-","b">>} }

AgentIdInputs == ShortAgentIds \cup LongAgentIds

\* session ids and session keys callers pass
SessionIdInputs ==
    { <<>>, <<"s","1">>, <<" ","S","1"," ">>, <<"m","a","i","n">>, <<"M","A","I","N">>,
      <<"a",":","b">>,
      <<"a","g","e","n","t",":">>,
      <<"a","g","e","n","t",":",":","x">>,
      <<"a","g","e","n","t",":","m","a","i","n",":">>,
      <<"a","g","e","n","t",":","_","x",":","y">>,
      <<"a","g","e","n","t",":","m","a","i","n",":","s","1">>,
      <<"A","g","e","n","t",":","M","a","i","n",":","S","1">>,
      <<"a","g","e","n","t",":","b","o","t",":","s","u","b","a","g","e","n","t",":","u","1">> }

\* the parameter the caller passes the session in
SessionParams == {"sessionId", "sessionKey"}

\* no caller
NoKeys ==
    [pc |-> "idle", agentId |-> <<>>, id |-> <<>>, via |-> "", normalized |-> <<>>,
     renormalized |-> <<>>, key |-> <<>>, byKey |-> <<>>, byId |-> <<>>]

\* normalizeAgentId(agentId)
NormalizeAgentId ==
    /\ keys.pc = "input"
    /\ keys' = [keys EXCEPT !.pc = "normalized",
                            !.normalized = normalizeAgentId(keys.agentId)]
    /\ UNCHANGED <<agentVars, wakeVars, runnerVars>>

\* normalizeAgentId applied to its own result
NormalizeAgain ==
    /\ keys.pc = "normalized"
    /\ keys' = [keys EXCEPT !.pc = "renormalized",
                            !.renormalized = normalizeAgentId(keys.normalized)]
    /\ UNCHANGED <<agentVars, wakeVars, runnerVars>>

\* resolveSessionKey({agentId, sessionId}) or resolveSessionKey({agentId, sessionKey})
ResolveKey ==
    /\ keys.pc = "renormalized"
    /\ keys' = [keys EXCEPT
                  !.pc = "resolved",
                  !.key = IF keys.via = "sessionId"
                          THEN resolveSessionKeyParams(keys.agentId, keys.id, <<>>)
                          ELSE resolveSessionKeyParams(keys.agentId, <<>>, keys.id)]
    /\ UNCHANGED <<agentVars, wakeVars, runnerVars>>

\* resolveSessionKey applied to its own result, as a session key and as a session id
ResolveAgain ==
    /\ keys.pc = "resolved"
    /\ keys' = [keys EXCEPT
                  !.pc = "reresolved",
                  !.byKey = resolveSessionKeyParams(keys.agentId, <<>>, keys.key),
                  !.byId = resolveSessionKeyParams(keys.agentId, keys.key, <<>>)]
    /\ UNCHANGED <<agentVars, wakeVars, runnerVars>>

(***************************************************************************)
(* Initial states and specifications.                                      *)
(***************************************************************************)
EmptyWorld ==
    [lanes |-> <<>>, runs |-> [c \in Runs |-> NoRun], nextCall |-> 0, events |-> <<>>,
     seqByRun |-> <<>>, steeringQueues |-> <<>>, controllers |-> {}, tasks |-> <<>>,
     thrown |-> FALSE]

\* the Agent constructor: setLaneConcurrency(globalLane, maxConcurrentRuns)
AgentConstructed ==
    /\ \E k \in ConcurrencyChoices :
         lanes = setLaneConcurrency(EmptyWorld, resolveGlobalLane, k).lanes
    /\ runs = [c \in Runs |-> NoRun]
    /\ nextCall = 0
    /\ events = <<>>
    /\ seqByRun = <<>>
    /\ log = <<>>
    /\ steeringQueues = <<>>
    /\ controllers = {}
    /\ steerCount = 0
    /\ tasks = <<>>

InitAgent ==
    /\ AgentConstructed
    /\ maxTurns = MaxTurns

InitWake ==
    /\ wake = [running |-> FALSE, scheduled |-> FALSE, timer |-> 0,
               pendingReason |-> "requested", pendingSource |-> ""]
    /\ timeouts = <<>>
    /\ handler = <<>>
    /\ wakeObs = [requests |-> 0, invoked |-> 0, bursts |-> 0, followUps |-> 0,
                  retries |-> 0, during |-> FALSE, arrivedDuring |-> 0, stops |-> 0,
                  since |-> "", expected |-> ""]

\* the HeartbeatManager constructor with a configuration
RunnerConstructed(activeHours, callbacks) ==
    /\ hbConfig = [intervalMs |-> DefaultIntervalMs,
                   duplicateWindowMs |-> DefaultDuplicateWindowMs,
                   enabled |-> TRUE,
                   activeHours |-> activeHours,
                   callbacks |-> callbacks]
    /\ runner = [started |-> FALSE, nextDueMs |-> 0, timer |-> 0, lastRunAt |-> NullMs,
                 lastText |-> NullText, lastTextAt |-> NullMs]
    /\ runnerTimeouts = <<>>
    /\ invocations = <<>>
    /\ runnerObs = [updates |-> 0, quiet |-> FALSE]

\* a manager constructed with the defaults and one callback, not started
InitRunnerDefault ==
    /\ clock \in {t \in Instants : \A u \in Instants : t <= u}
    /\ RunnerConstructed(NoActiveHours, 1)

Init == InitAgent /\ InitWake /\ InitRunnerDefault /\ keys = NoKeys

NextAgent ==
    \/ \E id \in Idents : Run(id)
    \/ \E c \in Runs : Prepare(c)
    \/ \E c \in Runs : StreamText(c)
    \/ \E c \in Runs : StreamToolCall(c)
    \/ \E c \in Runs : StreamSettle(c)
    \/ \E c \in Runs : AssistantAppended(c)
    \/ \E c \in Runs : ToolDone(c)
    \/ \E c \in Runs : ResultsAppended(c)
    \/ \E c \in Runs : SteeringAppended(c)
    \/ \E c \in Runs : GlobalSettle(c)
    \/ \E c \in Runs : SessionSettle(c)
    \/ \E c \in Runs : SubagentNotify(c)
    \/ \E id \in Idents : Steer(id)
    \/ \E target \in AbortArgs : Abort(target)

Spec == Init /\ [][NextAgent]_vars


NextWake ==
    \/ \E reason \in RequestReasons, source \in RequestSources : Request(reason, source)
    \/ \E h \in Handles : TimerFire(h)
    \/ \E outcome \in HandlerOutcomes : HandlerSettle(outcome)
    \/ Stop

SpecWake == Init /\ [][NextWake]_vars

\* one run of an Agent followed through the retries of its model stream, its
\* reactive compaction and the outcomes of its tool calls
InitLoop ==
    /\ AgentConstructed
    /\ maxTurns \in 1..MaxLoopTurns
    /\ InitWake
    /\ InitRunnerDefault
    /\ keys = NoKeys

\* the first run() call made on the Agent
FirstRun(id) == nextCall = 0 /\ Run(id)

NextLoop ==
    \/ \E id \in Idents : FirstRun(id)
    \/ \E c \in Runs : Prepare(c)
    \/ \E c \in Runs : StreamText(c)
    \/ \E c \in Runs, name \in CallNames : StreamToolCallOf(c, name)
    \/ \E c \in Runs : StreamSettle(c)
    \/ \E c \in Runs, errorText \in ErrorTexts : StreamFails(c, errorText)
    \/ \E c \in Runs : RetrySleepDone(c)
    \/ \E c \in Runs, outcome \in CompactionOutcomes : CompactionSettles(c, outcome)
    \/ \E c \in Runs : AssistantAppended(c)
    \/ \E c \in Runs, outcome \in ToolOutcomes : ToolSettles(c, outcome)
    \/ \E c \in Runs : ResultsAppended(c)
    \/ \E c \in Runs : GlobalSettle(c)
    \/ \E c \in Runs : SessionSettle(c)
    \/ \E target \in AbortArgs : Abort(target)

SpecLoop == InitLoop /\ [][NextLoop]_vars

\* the errors of a broken stream: a rate limit, which is retried, and a text
\* that matches no pattern
BreakErrorTexts == {<<"4","2","9">>, UnknownErrorText}

\* one run of an Agent whose model streams may also fail after they have
\* yielded events
NextRetry ==
    \/ \E id \in Idents : FirstRun(id)
    \/ \E c \in Runs : Prepare(c)
    \/ \E c \in Runs : StreamText(c)
    \/ \E c \in Runs : StreamToolCall(c)
    \/ \E c \in Runs : StreamSettle(c)
    \/ \E c \in Runs, errorText \in BreakErrorTexts : StreamBreaks(c, errorText)
    \/ \E c \in Runs : RetrySleepDone(c)
    \/ \E c \in Runs : AssistantAppended(c)
    \/ \E c \in Runs : ToolSettles(c, "return")
    \/ \E c \in Runs : ResultsAppended(c)
    \/ \E c \in Runs : GlobalSettle(c)
    \/ \E c \in Runs : SessionSettle(c)

SpecRetry == InitLoop /\ [][NextRetry]_vars

\* the process before an Agent is constructed: the lanes map is empty
NoAgent ==
    /\ lanes = <<>>
    /\ runs = [c \in Runs |-> NoRun]
    /\ nextCall = 0
    /\ events = <<>>
    /\ seqByRun = <<>>
    /\ log = <<>>
    /\ steeringQueues = <<>>
    /\ controllers = {}
    /\ steerCount = 0
    /\ tasks = <<>>
    /\ maxTurns = MaxTurns

\* a HeartbeatManager with its configuration, its clock and its runOnce calls
InitHeartbeat ==
    /\ NoAgent
    /\ InitWake
    /\ clock \in {t \in Instants : \A u \in Instants : t <= u}
    /\ \E activeHours \in ActiveHoursChoices, callbacks \in CallbackCounts :
          RunnerConstructed(activeHours, callbacks)
    /\ keys = NoKeys

NextHeartbeat ==
    \/ Start
    \/ \E t \in Instants : Tick(t)
    \/ \E reason \in RunReasons : RunOnceCalled(reason)
    \/ \E i \in 1..MaxHeartbeatRuns, pending \in PendingChoices : ParseSettles(i, pending)
    \/ \E i \in 1..MaxHeartbeatRuns, outcome \in CallbackOutcomes : CallbackSettles(i, outcome)

SpecHeartbeat == InitHeartbeat /\ [][NextHeartbeat]_vars

\* a HeartbeatManager constructed with one callback and active hours from
\* 08:00 to 22:00, and its coalescer
InitManager ==
    /\ NoAgent
    /\ InitWake
    /\ clock \in {t \in ManagerInstants : \A u \in ManagerInstants : t <= u}
    /\ RunnerConstructed([configured |-> TRUE, start |-> <<"0","8",":","0","0">>,
                          end |-> <<"2","2",":","0","0">>], 1)
    /\ keys = NoKeys

NextManager ==
    \/ Start
    \/ ManagerStop
    \/ \E update \in UpdateChoices : UpdateConfig(update)
    \/ \E t \in ManagerInstants : Tick(t)
    \/ \E h \in Handles : RunnerTimerFire(h)
    \/ \E reason \in RequestNowReasons : RequestNow(reason, "")
    \/ Trigger
    \/ \E h \in Handles : WakeRuns(h)
    \/ RunOnceReturns
    \/ \E i \in 1..MaxHeartbeatRuns, pending \in PendingChoices : ParseSettles(i, pending)
    \/ \E i \in 1..MaxHeartbeatRuns, outcome \in ManagerCallbackOutcomes :
         CallbackSettles(i, outcome)

SpecManager == InitManager /\ [][NextManager]_vars


\* the command queue used by callers other than the Agent
InitLanes == NoAgent /\ InitWake /\ InitRunnerDefault /\ keys = NoKeys

NextLanes ==
    \/ \E lane \in TaskLanes, error \in TaskThrows, onWait \in OnWaitChoices :
         EnqueueTask(lane, error, onWait)
    \/ \E t \in 1..MaxTasks, settled \in TaskOutcomes : TaskSettles(t, settled)
    \/ \E t \in 1..MaxTasks : WrapperResumes(t)
    \/ \E t \in 1..MaxTasks : CallerObserves(t)
    \/ \E lane \in TaskLanes, k \in LaneLimits : SetConcurrency(lane, k)

SpecLanes == InitLanes /\ [][NextLanes]_vars

\* the session keys of the first run() calls of a host that also runs a
\* subagent session itself
RunIdents == {<<"s","1">>, buildSubagentSessionKey(ConfigAgentId, 0)}

\* the Agent whose tools spawn subagents
NextSubagent ==
    \/ \E id \in RunIdents : Run(id)
    \/ \E c \in Runs : Prepare(c)
    \/ \E c \in Runs : StreamText(c)
    \/ \E c \in Runs : StreamToolCall(c)
    \/ \E c \in Runs : StreamSettle(c)
    \/ \E c \in Runs : AssistantAppended(c)
    \/ \E c \in Runs : ToolDone(c)
    \/ \E c \in Runs : ResultsAppended(c)
    \/ \E c \in Runs : GlobalSettle(c)
    \/ \E c \in Runs : SessionSettle(c)
    \/ \E c \in Runs : SubagentNotify(c)

SpecSubagent == Init /\ [][NextSubagent]_vars

\* a step of a run that was called: of its provider stream, its tools, its
\* appends or of the lanes' wrappers; the host's event loop runs each of them
\* once it is ready, and every stream, tool call and append settles
RunStepOf(c) ==
    \/ Prepare(c) \/ StreamText(c) \/ StreamToolCall(c) \/ StreamSettle(c)
    \/ AssistantAppended(c) \/ ToolDone(c) \/ ResultsAppended(c)
    \/ GlobalSettle(c) \/ SessionSettle(c) \/ SubagentNotify(c)

RunStep == \E c \in Runs : RunStepOf(c)

\* the Agent whose started run bodies terminate
SpecSubagentFair == SpecSubagent /\ WF_vars(RunStep)

\* the session-key functions called with the inputs above
InitKeys ==
    /\ NoAgent /\ InitWake /\ InitRunnerDefault
    /\ \E agentId \in AgentIdInputs, id \in SessionIdInputs, via \in SessionParams :
          keys = [NoKeys EXCEPT !.pc = "input", !.agentId = agentId, !.id = id,
                                !.via = via]

NextKeys ==
    \/ NormalizeAgentId
    \/ NormalizeAgain
    \/ ResolveKey
    \/ ResolveAgain

SpecKeys == InitKeys /\ [][NextKeys]_vars

(***************************************************************************)
(* Where a run's tasks are.                                                *)
(***************************************************************************)
\* the task body of Agent.run is executing: started and not yet settled
BodyPcs == {"prepare", "stream", "retrySleep", "compact", "appendAssistant", "tool",
            "appendResults", "appendSteering"}

\* the task body has settled
FinishedPcs == {"bodyDone", "outerDone", "notify", "done"}

StartedPcs == BodyPcs \cup FinishedPcs

\* the runs whose task on `lane` has been started and has not yet settled
Executing(lane) ==
    IF lane = resolveGlobalLane
    THEN {c \in Runs : runs[c].pc \in BodyPcs}
    ELSE {c \in Runs : /\ runs[c].pc \in {"queuedGlobal", "bodyDone"} \cup BodyPcs
                       /\ resolveSessionLane(runs[c].key) = lane}

(***************************************************************************)
(* C1: on every lane, the number of tasks that have been started and have  *)
(* not yet settled never exceeds the lane's maxConcurrent; on the global   *)
(* lane this bounds the run bodies that execute at the same time.          *)
(***************************************************************************)
LaneConcurrencyBound ==
    \A lane \in DOMAIN lanes :
        Cardinality(Executing(lane)) <= lanes[lane].maxConcurrent

\* the global lane is full and a further run body waits in its queue
LaneFullWithWaiter ==
    /\ resolveGlobalLane \in DOMAIN lanes
    /\ Cardinality(Executing(resolveGlobalLane)) = lanes[resolveGlobalLane].maxConcurrent
    /\ Len(lanes[resolveGlobalLane].queue) > 0

(***************************************************************************)
(* What a run has written and emitted.                                     *)
(***************************************************************************)
\* the messages run c appended to the log of its own session
AppendsOf(c) ==
    SelectSeq(Get(log, runs[c].key, <<>>), LAMBDA m : m.by = c /\ m.origin # "subagent")

\* the lifecycle phases start, end and error emitted with the run id of c
LifecycleOf(c) ==
    LET evs == SelectSeq(Get(events, RunIdOf(c), <<>>),
                         LAMBDA e : e.stream = "lifecycle" /\ e.phase \in {"start", "end", "error"})
    IN  [i \in 1..Len(evs) |-> evs[i].phase]

\* the events the task body of c emitted
BodyEventsOf(c) ==
    SelectSeq(Get(events, RunIdOf(c), <<>>), LAMBDA e : e.stream # "subagent")

\* run() calls are numbered in the order they are made: a on the same session before b
SameSessionBefore(a, b) ==
    /\ a < b
    /\ runs[b].pc # "idle"
    /\ runs[a].key = runs[b].key

(***************************************************************************)
(* C2: of two run() calls on the same session key, the later one's task    *)
(* body has begun only if the earlier one's body has finished: the earlier *)
(* run has emitted its lifecycle end or error, and once the later body has *)
(* begun the earlier run appends nothing more to the log and emits no more *)
(* body events.                                                            *)
(***************************************************************************)
SessionRunsSerial ==
    [][\A a, b \in Runs :
          (SameSessionBefore(a, b)' /\ runs'[b].pc \in StartedPcs) =>
              /\ runs'[a].pc \in FinishedPcs
              /\ Len(LifecycleOf(a)') = 2
              /\ AppendsOf(a)' = AppendsOf(a)
              /\ BodyEventsOf(a)' = BodyEventsOf(a)]_vars

\* two runs of one session: the second has begun after the first wrote and finished
SecondRunOfSessionBegun ==
    \E a, b \in Runs :
        /\ SameSessionBefore(a, b)
        /\ runs[b].pc \in BodyPcs
        /\ Len(AppendsOf(a)) >= 2
        /\ Len(AppendsOf(b)) >= 1

(***************************************************************************)
(* The session log as Agent.run and runAgentLoop write it.                 *)
(***************************************************************************)
\* the messages of a session's log that Agent.run and runAgentLoop appended
LoopLog(key) == SelectSeq(Get(log, key, <<>>), LAMBDA m : m.origin # "subagent")

IsPrefix(p, q) == Len(p) <= Len(q) /\ SubSeq(q, 1, Len(p)) = p

IsToolUse(m) == m.role = "assistant" /\ m.ids # <<>>

\* message j of L is the tool-result message of a steered turn: the loop's next
\* append is the steering text of the same run
SteeredAt(L, j) ==
    IF j = Len(L) THEN runs[L[j].by].pc = "appendSteering"
    ELSE /\ L[j + 1].role = "user"
         /\ L[j + 1].kind = "text"
         /\ L[j + 1].origin = "loop"
         /\ L[j + 1].by = L[j].by

SeqStrictlyIncreasing ==
    \A runId \in DOMAIN events :
        LET evs == events[runId] IN
        /\ evs[1].seq = 1
        /\ \A i \in 1..(Len(evs) - 1) : evs[i].seq < evs[i + 1].seq

(***************************************************************************)
(* C5: a run whose task body has begun has emitted exactly one lifecycle   *)
(* start and, while the body executes, no terminal event; once the body    *)
(* has returned or thrown it has emitted, after the start, exactly one     *)
(* terminal event: end if it returned, error if it threw.  A run that has  *)
(* not been admitted has emitted neither.                                  *)
(***************************************************************************)
LifecycleStartThenOneTerminal ==
    \A c \in Runs :
        CASE runs[c].pc \in BodyPcs -> LifecycleOf(c) = <<"start">>
          [] runs[c].pc \in FinishedPcs ->
                LifecycleOf(c) = <<"start", IF runs[c].failed THEN "error" ELSE "end">>
          [] OTHER -> LifecycleOf(c) = <<>>

\* one run has finished with end and another with error
RunsEndedBothWays ==
    \E a, b \in Runs :
        /\ runs[a].pc \in FinishedPcs /\ ~runs[a].failed
        /\ runs[b].pc \in FinishedPcs /\ runs[b].failed

(***************************************************************************)
(* C6: steering between tool calls.                                        *)
(***************************************************************************)
\* the texts of q joined by newlines, built from the last text backwards
RECURSIVE JoinLines(_)
JoinLines(q) ==
    IF q = <<>> THEN <<>>
    ELSE IF Len(q) = 1 THEN q[1]
    ELSE JoinLines(SubSeq(q, 1, Len(q) - 1)) \o <<"\n">> \o q[Len(q)]

Last(L) == L[Len(L)]

\* the ids of the tool_use blocks of the turn run c is in
TurnToolUseIds(c) ==
    LET A == SelectSeq(AppendsOf(c), IsToolUse) IN Last(A).ids

\* a tool call of run c finishes in this step
ToolCallFinishes(c) == runs[c].pc = "tool" /\ runs'[c].total = runs[c].total + 1

RunQueueKey(id) == resolveSessionKey(ConfigAgentId, id)

SteerReachesRunQueue ==
    [][\A id \in Idents :
          Steer(id) =>
              Get(steeringQueues', RunQueueKey(id), <<>>) =
                  Append(Get(steeringQueues, RunQueueKey(id), <<>>),
                         SteerText(steerCount + 1))]_vars

(***************************************************************************)
(* C10: a run whose cancellation signal was set before it finished has     *)
(* lifecycle error as its terminal event, never end.                      *)
(***************************************************************************)
CancelledRunEndsInError ==
    \A c \in Runs :
        (runs[c].aborted /\ runs[c].pc \in FinishedPcs) =>
            LifecycleOf(c) = <<"start", "error">>

(***************************************************************************)
(* What an observer of the wake coalescer counts (wakeObs):                *)
(*   requests   request() calls                                            *)
(*   bursts     request() calls made while the coalescer was idle (not     *)
(*              running, no timer armed): each opens a burst               *)
(*   invoked    handler invocations started                                *)
(*   during     a request() arrived during the invocation in flight        *)
(*   arrivedDuring  request() calls that arrived during an invocation      *)
(*   followUps  invocations that settled after a request() arrived during  *)
(*              them                                                       *)
(*   retries    invocations that returned requests-in-flight with no       *)
(*              request() arriving during them                             *)
(*   stops      stop() calls                                               *)
(*   since      the reason of highest priority among the request() calls   *)
(*              made since the last invocation read pendingReason, "" if   *)
(*              there was none                                             *)
(*   expected   `since` as it was when the last invocation started        *)
(***************************************************************************)
PendingTimers == Cardinality(DOMAIN timeouts)

(***************************************************************************)
(* C8: from an idle coalescer, the request() calls made before the timer   *)
(* fires result in exactly one handler invocation: as long as no request   *)
(* arrived during an invocation, no invocation asked for a retry and       *)
(* stop() was not called, every burst has its one invocation or its one    *)
(* pending timer, however many requests the burst had.                     *)
(***************************************************************************)
BurstInvokesHandlerOnce ==
    (wakeObs.stops = 0 /\ wakeObs.followUps = 0 /\ wakeObs.retries = 0 /\ ~wakeObs.during) =>
        /\ wakeObs.invoked + PendingTimers = wakeObs.bursts
        /\ PendingTimers <= 1
        /\ ~wake.scheduled

\* a burst of three requests has led to one invocation, and nothing is pending
BurstOfThreeInvokedOnce ==
    /\ wakeObs.requests = 3
    /\ wakeObs.bursts = 1
    /\ wakeObs.invoked = 1
    /\ wakeObs.stops = 0 /\ wakeObs.followUps = 0 /\ wakeObs.retries = 0
    /\ handler = <<>>
    /\ PendingTimers = 0

(***************************************************************************)
(* C9: requests that arrive while a handler invocation executes lead to    *)
(* exactly one further invocation after it, however many arrived: without  *)
(* stop(), the invocations started plus the one pending (a timer armed, or *)
(* the scheduled flag of the running invocation) are the bursts, plus one  *)
(* per invocation during which requests arrived, plus one per retry.       *)
(***************************************************************************)
RequestsDuringRunInvokeOnceMore ==
    wakeObs.stops = 0 =>
        wakeObs.invoked + PendingTimers + (IF wake.scheduled THEN 1 ELSE 0) =
            wakeObs.bursts + wakeObs.followUps + wakeObs.retries
                + (IF wakeObs.during THEN 1 ELSE 0)

\* two requests arrived during the first invocation; one further invocation
\* followed and nothing is pending
TwoRequestsDuringRunOneFollowUp ==
    /\ wakeObs.requests = 3
    /\ wakeObs.arrivedDuring = 2
    /\ wakeObs.bursts = 1
    /\ wakeObs.followUps = 1
    /\ wakeObs.retries = 0
    /\ wakeObs.invoked = 2
    /\ wakeObs.stops = 0
    /\ handler = <<>>
    /\ PendingTimers = 0
    /\ ~wake.scheduled

(***************************************************************************)
(* C11: once abort() has set a run's signal, the loop starts no further    *)
(* tool execution in that run: no step taken while the signal is set       *)
(* brings the loop to the execution of a tool call.                        *)
(***************************************************************************)
\* the loop calls tool.execute for a call of run c in this step
ToolExecutionStarts(c) ==
    /\ runs'[c].pc = "tool"
    /\ runs[c].pc # "tool" \/ runs'[c].idx # runs[c].idx

NoToolStartsAfterAbort ==
    [][\A c \in Runs : runs[c].aborted => ~ToolExecutionStarts(c)]_vars

\* the number of streamFn calls run c made in turn t
StreamsOfTurn(c, t) ==
    Cardinality({i \in DOMAIN runs[c].streams : runs[c].streams[i] = t})

(***************************************************************************)
(* C12: within one turn the model stream is started at most 3 times; a     *)
(* failed attempt is retried only if its error text matches a rate-limit   *)
(* pattern; and an error that the classifier calls auth, billing, format,  *)
(* timeout or unknown (and that is no context overflow) fails the run      *)
(* after that single attempt.                                              *)
(***************************************************************************)
RetryOnlyOnRateLimit ==
    [][\A c \in Runs :
          /\ \A t \in 1..MaxLoopTurns : StreamsOfTurn(c, t)' <= 3
          /\ \A errorText \in ErrorTexts :
                StreamFails(c, errorText) =>
                    /\ runs'[c].pc = "retrySleep" => isRateLimitError(errorText)
                    /\ (/\ classifyFailoverReason(errorText) \in
                              {"auth", "billing", "format", "timeout", "unknown"}
                        /\ ~isContextOverflowError(errorText))
                         => runs'[c].pc = "bodyDone" /\ runs'[c].failed]_vars

\* the context_overflow_compact events of run c
CompactEventsOf(c) ==
    SelectSeq(Get(events, RunIdOf(c), <<>>),
              LAMBDA e : e.stream = "lifecycle" /\ e.phase = "context_overflow_compact")

(***************************************************************************)
(* C13: a run performs the reactive compaction at most once.  When the     *)
(* compaction yields no summary the run fails with the LLM error that      *)
(* triggered it; when a context-overflow failure is thrown out of          *)
(* retryAsync after the compaction was attempted the run fails with that   *)
(* error and no compaction is started; when the compaction yields a        *)
(* summary the loop re-enters the same turn number with a first attempt    *)
(* (or, the signal being set, leaves at the top of that turn).             *)
(***************************************************************************)
ReactiveCompactionOnce ==
    [][\A c \in Runs :
          /\ Len(CompactEventsOf(c))' <= 1
          /\ CompactionSettles(c, "none") =>
                /\ runs'[c].pc = "bodyDone" /\ runs'[c].failed
                /\ runs'[c].error = runs[c].error
                /\ isContextOverflowError(runs[c].error)
          /\ CompactionSettles(c, "summary") =>
                /\ runs'[c].turns = runs[c].turns
                /\ runs'[c].compactionSummary
                /\ ~runs'[c].failed
                /\ IF runs[c].aborted THEN runs'[c].pc = "bodyDone"
                   ELSE /\ runs'[c].pc = "stream" /\ runs'[c].attempt = 1
                        /\ runs'[c].streams = Append(runs[c].streams, runs[c].turns)
          /\ \A errorText \in ErrorTexts :
                (/\ StreamFails(c, errorText)
                 /\ isContextOverflowError(errorText)
                 /\ runs[c].overflowCompactionAttempted
                 /\ runs'[c].pc # "retrySleep") =>
                    /\ runs'[c].pc = "bodyDone" /\ runs'[c].failed
                    /\ runs'[c].error = errorText
                    /\ CompactEventsOf(c)' = CompactEventsOf(c)]_vars

\* a run whose turn 1 overflowed, was compacted and re-entered, overflowed
\* again and failed with that error
CompactedRunFailedOnSecondOverflow ==
    \E c \in Runs :
        /\ runs[c].pc = "bodyDone" /\ runs[c].failed
        /\ runs[c].compactionSummary
        /\ isContextOverflowError(runs[c].error)
        /\ Len(CompactEventsOf(c)) = 1
        /\ runs[c].streams = <<1, 1>>
        /\ runs[c].turns = 1

\* run c itself takes this step: more than its signal changes
LoopMoves(c) == runs'[c] \notin {runs[c], [runs[c] EXCEPT !.aborted = TRUE]}

\* the results the loop's step adds to toolResults of run c
NewResults(c) ==
    IF runs[c].pc = "appendAssistant"
    THEN (IF runs[c].nCalls = 0 THEN <<>> ELSE runs'[c].results)
    ELSE SubSeq(runs'[c].results, Len(runs[c].results) + 1, Len(runs'[c].results))

(***************************************************************************)
(* C14: a tool that throws, or a call naming a tool that is not in the     *)
(* run's tool set, never ends the run: no step of the tool loop fails the  *)
(* run; the call gets a result whose body is the error message behind the  *)
(* execution-error prefix, or the name behind the unknown-tool prefix; it  *)
(* is counted in totalToolCalls; the loop goes on to the next call or to   *)
(* the tool-result message, which carries these bodies, and from there to  *)
(* the next turn (unless steering, maxTurns or the signal end the turn).   *)
(***************************************************************************)
ToolFailuresContained ==
    [][\A c \in Runs :
          /\ (runs[c].pc \in {"appendAssistant", "tool"} /\ LoopMoves(c)) =>
                /\ ~runs'[c].failed
                /\ runs'[c].pc \in {"tool", "appendResults"}
                      \/ (runs[c].nCalls = 0 /\ runs'[c].pc = "bodyDone")
                /\ runs'[c].total = runs[c].total + Len(NewResults(c))
                /\ runs'[c].pc \in {"tool", "appendResults"} =>
                      \A i \in DOMAIN runs'[c].results :
                          runs'[c].names[i] \notin KnownTools =>
                              runs'[c].results[i] = UnknownToolPrefix \o runs'[c].names[i]
                /\ runs'[c].pc = "tool" =>
                      runs'[c].idx = Len(runs'[c].results) + 1
          /\ ToolSettles(c, "throw") =>
                /\ Len(NewResults(c)) >= 1
                /\ NewResults(c)[1] = ToolErrorPrefix \o ToolFailure
          /\ (runs[c].pc = "appendResults" /\ runs'[c].pc # "appendResults") =>
                /\ Last(Get(log, runs[c].key, <<>>)').content = runs[c].results
                /\ ~runs'[c].failed
                /\ \/ runs'[c].pc = "stream" /\ runs'[c].turns = runs[c].turns + 1
                   \/ runs'[c].pc = "appendSteering"
                   \/ /\ runs'[c].pc = "bodyDone"
                      /\ runs[c].turns >= maxTurns \/ runs[c].aborted]_vars

\* a turn with an unknown tool and a throwing tool was answered with both
\* error bodies, both calls were counted, and the next turn was streamed
ErrorResultsThenNextTurn ==
    \E c \in Runs :
        LET L == Get(log, runs[c].key, <<>>) IN
        /\ Len(L) >= 4
        /\ L[3].kind = "tool_result"
        /\ L[3].content = <<UnknownToolPrefix \o <<"n","o","p","e">>,
                            ToolErrorPrefix \o ToolFailure>>
        /\ L[4].role = "assistant"
        /\ runs[c].total >= 2
        /\ runs[c].turns = 2
        /\ ~runs[c].failed

\* the assistant messages run c appended
AssistantsOf(c) ==
    SelectSeq(Get(log, runs[c].key, <<>>),
              LAMBDA m : m.by = c /\ m.origin = "loop" /\ m.role = "assistant")

\* what is left of the stream of run c: the text and the tool calls it has
\* not yielded
StreamEventsLeft(c) ==
    (IF runs[c].text THEN 0 ELSE 1) + (MaxCalls - runs[c].nCalls)

\* the longest rest of one attempt: the events of its stream, then its settling
AttemptSpan == MaxCalls + 2

\* what run c has left to do inside the current call of retryAsync or after it
TurnRank(c) ==
    CASE runs[c].pc = "stream" ->
            MaxCalls + 5 + 2 * AttemptSpan * (RetryAttempts - runs[c].attempt)
                + AttemptSpan + StreamEventsLeft(c)
      [] runs[c].pc = "retrySleep" ->
            MaxCalls + 5 + 2 * AttemptSpan * (RetryAttempts - runs[c].attempt)
      [] runs[c].pc = "compact" -> MaxCalls + 4
      [] runs[c].pc = "appendAssistant" -> MaxCalls + 3
      [] runs[c].pc = "tool" -> 3 + (runs[c].nCalls - runs[c].idx)
      [] runs[c].pc = "appendResults" -> 2
      [] runs[c].pc = "appendSteering" -> 1
      [] OTHER -> 0

TurnRankLimit == MaxCalls + 6 + 2 * AttemptSpan * RetryAttempts

\* the reactive compaction run c has left: 2 before it, 1 while it runs
CompactionRank(c) ==
    IF ~runs[c].overflowCompactionAttempted THEN 2
    ELSE IF runs[c].pc = "compact" THEN 1 ELSE 0

\* a measure of what run c has left to do in the loop: the turns, then the
\* compaction, then the rest of the turn
LoopRank(c) ==
    IF runs[c].pc \notin BodyPcs THEN 0
    ELSE 1 + TurnRank(c) + TurnRankLimit * CompactionRank(c)
           + 3 * TurnRankLimit * (maxTurns - runs[c].turns)

(***************************************************************************)
(* C15: runAgentLoop terminates when the streams, tool executions, sleeps  *)
(* and appends it awaits settle: every step of a run inside the loop,      *)
(* other than abort() setting its signal, strictly lowers a non-negative   *)
(* measure of what is left, so the loop takes finitely many steps.  Its    *)
(* turn counter never exceeds maxTurns and it appends at most maxTurns     *)
(* assistant messages, also when a context-overflow compaction rewound the *)
(* counter.                                                                *)
(***************************************************************************)
LoopEndsWithinMaxTurns ==
    [][\A c \in Runs :
          /\ runs[c].turns <= maxTurns /\ runs'[c].turns <= maxTurns
          /\ Len(AssistantsOf(c)) <= maxTurns /\ Len(AssistantsOf(c))' <= maxTurns
          /\ LoopRank(c) >= 0 /\ LoopRank(c)' >= 0
          /\ runs[c].pc \in BodyPcs =>
                \/ runs'[c] = runs[c]
                \/ runs'[c] = [runs[c] EXCEPT !.aborted = TRUE]
                \/ LoopRank(c)' < LoopRank(c)]_vars

\* a run that was rewound by a compaction used all its turns
RewoundRunUsedAllTurns ==
    \E c \in Runs :
        /\ runs[c].pc \in FinishedPcs
        /\ runs[c].compactionSummary
        /\ maxTurns = MaxLoopTurns
        /\ runs[c].turns = maxTurns
        /\ Len(AssistantsOf(c)) = maxTurns

\* invocation i of runOnce returns in this step
Returns(i) ==
    /\ i \in DOMAIN invocations'
    /\ invocations'[i].pc = "returned"
    /\ i \in DOMAIN invocations => invocations[i].pc # "returned"

\* in this step scheduleNext arms a timeout for `now` + intervalMs
NextRunScheduled(now) ==
    /\ runner'.nextDueMs = now + hbConfig.intervalMs
    /\ runner'.timer \notin DOMAIN runnerTimeouts
    /\ DOMAIN runnerTimeouts' = DOMAIN runnerTimeouts \cup {runner'.timer}
    /\ runnerTimeouts'[runner'.timer] = Max(clock, now + hbConfig.intervalMs)

(***************************************************************************)
(* C16: of two consecutive heartbeat runs whose callbacks yield texts that *)
(* are equal after trimming, the second less than duplicateWindowMs after  *)
(* the first, which returned ok with its text, the second does not return  *)
(* ok: it returns skipped/duplicate-message; it leaves lastText and        *)
(* lastTextAt as the first run recorded them, sets lastRunAt to its own    *)
(* time and, the manager being started, schedules the next run.            *)
(***************************************************************************)
DuplicateTextSuppressed ==
    [][\A i \in 2..MaxHeartbeatRuns :
          LET first == invocations[i - 1]
              second == invocations'[i]
          IN  (/\ Returns(i)
               /\ first.status = "ok" /\ first.text # <<>>
               /\ second.resultText # <<>>
               /\ Trim(second.resultText) = Trim(first.text)
               /\ second.now - first.now < hbConfig.duplicateWindowMs) =>
                  /\ second.status = "skipped" /\ second.why = "duplicate-message"
                  /\ second.text = <<>>
                  /\ runner.lastText = first.text /\ runner.lastTextAt = first.now
                  /\ runner'.lastText = first.text /\ runner'.lastTextAt = first.now
                  /\ runner'.lastRunAt = second.now
                  /\ IF runner.started THEN NextRunScheduled(second.now)
                     ELSE runnerTimeouts' = runnerTimeouts]_vars

\* the first run returned ok with "hi"; a later run on the next day, less than
\* 24 hours after it, yielded "hi " and was skipped as a duplicate
SecondRunSuppressed ==
    /\ Len(invocations) = 2
    /\ invocations[1].status = "ok" /\ invocations[1].text = <<"h","i">>
    /\ invocations[2].pc = "returned"
    /\ invocations[2].resultText = <<"h","i"," ">>
    /\ invocations[2].why = "duplicate-message"
    /\ invocations[1].now = At(1, 8, 0) /\ invocations[2].now = At(2, 7, 59)
    /\ runner.started
    /\ runner.lastRunAt = At(2, 7, 59)
    /\ runner.lastTextAt = At(1, 8, 0)

\* minute m of the day is inside the configured window
InsideWindow(m) ==
    LET start == MinutesOf(hbConfig.activeHours.start)
        end == MinutesOf(hbConfig.activeHours.end)
    IN  IF start < end THEN start <= m /\ m < end
        ELSE m >= start \/ m < end

AppendsUnderSessionLane ==
    [][\A key \in DOMAIN log' :
          Len(log'[key]) > Len(Get(log, key, <<>>)) =>
              LET by == Last(log'[key]).by
              IN  /\ by \in Executing(resolveSessionLane(key))
                  /\ runs[by].key = key]_vars

(***************************************************************************)
(* C19: within one lane tasks are started in the order in which they were  *)
(* enqueued: a task's task() has been called only if no entry enqueued     *)
(* earlier on the same lane is still in the queue, and after the calls of  *)
(* the tasks enqueued earlier.                                             *)
(***************************************************************************)
LaneStartsInEnqueueOrder ==
    /\ \A t, u \in DOMAIN tasks :
          (u < t /\ tasks[u].lane = tasks[t].lane /\ tasks[t].startNo > 0) =>
              /\ tasks[u].pc # "queued"
              /\ tasks[u].startNo > 0 => tasks[u].startNo < tasks[t].startNo
    /\ \A lane \in DOMAIN lanes :
          LET queue == lanes[lane].queue
          IN  \A i, j \in DOMAIN queue :
                  (i < j /\ queue[i].kind = "task" /\ queue[j].kind = "task") =>
                      queue[i].run < queue[j].run

\* three tasks on a lane of one slot: the first has finished, the second was
\* started from the queue and runs, the third waits
SecondStartedThirdWaits ==
    /\ Len(tasks) = 3
    /\ \A t \in 1..3 : tasks[t].lane = resolveGlobalLane
    /\ lanes[resolveGlobalLane].maxConcurrent = 1
    /\ tasks[1].promise = "resolved"
    /\ tasks[2].pc = "running" /\ tasks[2].startNo = 2 /\ tasks[2].waited
    /\ tasks[3].pc = "queued"

(***************************************************************************)
(* C20: when the promise of a lane task rejects, the wrapper's resumption  *)
(* rejects the promise enqueueInLane returned with the same error, has     *)
(* decremented the lane's active count exactly once and has admitted the   *)
(* next queued task (the queue is empty or the lane is full), all before   *)
(* the caller observes the rejection.                                      *)
(***************************************************************************)
RejectionPropagatesAfterRelease ==
    [][\A t \in DOMAIN tasks :
          (/\ tasks[t].pc = "settled" /\ tasks[t].outcome = "reject"
           /\ tasks'[t].pc = "wrapped") =>
              LET lane == lanes'[tasks[t].lane]
              IN  /\ tasks'[t].promise = "rejected"
                  /\ tasks'[t].promiseValue = tasks[t].value
                  /\ ~tasks'[t].observed
                  /\ tasks'[t].decrements = 1
                  /\ Len(lane.queue) = 0 \/ lane.active >= lane.maxConcurrent]_vars

\* the position of the first colon of k after position i, 0 if there is none
ColonAfter(k, i) ==
    IF \E j \in (i + 1)..Len(k) : k[j] = ":"
    THEN CHOOSE j \in (i + 1)..Len(k) : k[j] = ":" /\ \A h \in (i + 1)..(j - 1) : k[h] # ":"
    ELSE 0

\* s matches [a-z0-9][a-z0-9_-]{0,63}
MatchesAgentId(s) ==
    /\ Len(s) \in 1..64
    /\ s[1] \in LowerChars \cup DigitChars
    /\ \A i \in 1..Len(s) : s[i] \in IdChars

\* k is agent:<agentId>:<tail> with a matching agentId and a non-empty tail
CanonicalKey(k) ==
    /\ StartsWith(k, AgentPrefix)
    /\ LET c == ColonAfter(k, Len(AgentPrefix))
       IN  /\ c > 0
           /\ MatchesAgentId(SubSeq(k, Len(AgentPrefix) + 1, c - 1))
           /\ c < Len(k)

(***************************************************************************)
(* C22: for every agent id and session id or session key,                  *)
(* resolveSessionKey returns a key agent:<agentId>:<tail> in which agentId *)
(* matches [a-z0-9][a-z0-9_-]{0,63} and tail is not empty.                 *)
(***************************************************************************)
ResolvedKeyCanonical ==
    keys.pc \in {"resolved", "reresolved"} => CanonicalKey(keys.key)

(***************************************************************************)
(* C23: with k the key resolveSessionKey returns for an agent id and a     *)
(* session id, resolveSessionKey returns k again when k is passed as the   *)
(* session key and when k is passed as the session id.                     *)
(***************************************************************************)
ResolveSessionKeyIdempotent ==
    (keys.pc = "reresolved" /\ keys.via = "sessionId") =>
        (keys.byKey = keys.key /\ keys.byId = keys.key)

\* the bare id " S1 " of agent "Bot" and its key agent:bot:s1 resolve to that key
BareIdAndKeyResolveAlike ==
    /\ keys.pc = "reresolved" /\ keys.via = "sessionId"
    /\ keys.agentId = <<"B","o","t">>
    /\ keys.id = <<" ","S","1"," ">>
    /\ keys.key = <<"a","g","e","n","t",":","b","o","t",":","s","1">>
    /\ keys.byKey = keys.key /\ keys.byId = keys.key

(***************************************************************************)
(* C24: normalizeAgentId applied to its own result returns that result,    *)
(* for every input, those longer than 64 characters and those starting     *)
(* with an underscore or a hyphen included.                                *)
(***************************************************************************)
NormalizeAgentIdIdempotent ==
    keys.pc \in {"renormalized", "resolved", "reresolved"} =>
        keys.renormalized = keys.normalized

(***************************************************************************)
(* C25: a tool call of a run on a subagent session starts no run, whether  *)
(* or not it called spawnSubagent, and no run has a subagent session as    *)
(* its parent: subagents are at most one level deep.                       *)
(***************************************************************************)
SubagentSpawnsNothing ==
    [][/\ \A c \in Runs :
            (ToolCallFinishes(c) /\ isSubagentSessionKey(runs[c].key)) =>
                /\ nextCall' = nextCall
                /\ \A d \in Runs : runs[d].pc = "idle" => runs'[d] = runs[d]
                /\ runs'[c].result \in {ToolOutput, ToolErrorPrefix \o SpawnRefusedText}
       /\ \A d \in Runs :
            runs'[d].parent # <<>> => ~isSubagentSessionKey(runs'[d].parent)]_vars

\* a child run called spawnSubagent: its tool result is the error and no run
\* has the child's session as its parent
ChildSpawnRefused ==
    \E c \in Runs :
        /\ runs[c].parent # <<>>
        /\ isSubagentSessionKey(runs[c].key)
        /\ \E i \in DOMAIN runs[c].results :
              runs[c].results[i] = ToolErrorPrefix \o SpawnRefusedText
        /\ \A d \in Runs : runs[d].parent # runs[c].key

(***************************************************************************)
(* C21: with the global lane at maxConcurrent 2, run() calls on distinct   *)
(* sessions complete in the order in which the global lane admitted them:  *)
(* a later call has not completed while an earlier one is unfinished.      *)
(***************************************************************************)
CompletesInAdmissionOrder ==
    \A a, b \in Runs :
        ( /\ a < b
          /\ lanes[resolveGlobalLane].maxConcurrent = 2
          /\ runs[a].parent = <<>> /\ runs[b].parent = <<>>
          /\ runs[a].key # runs[b].key
          /\ runs[b].pc = "done" )
        => runs[a].pc = "done"

(***************************************************************************)
(* C26: on every lane `active` never exceeds `maxConcurrent`, also right   *)
(* after setLaneConcurrency set a limit below the number of tasks that     *)
(* execute on the lane.                                                    *)
(***************************************************************************)
ActiveWithinLimit ==
    \A lane \in DOMAIN lanes : lanes[lane].active <= lanes[lane].maxConcurrent

(***************************************************************************)
(* C27: lanes are work-conserving: after every enqueueInLane, task         *)
(* completion and setLaneConcurrency, no lane has an entry in its queue    *)
(* while its `active` is below its `maxConcurrent`.                        *)
(***************************************************************************)
WorkConserving ==
    \A lane \in DOMAIN lanes :
        Len(lanes[lane].queue) > 0 => lanes[lane].active >= lanes[lane].maxConcurrent

(***************************************************************************)
(* C28: the wake coalescer never has more than one handler invocation in   *)
(* flight nor more than one pending timer, whatever the order of           *)
(* request(), timer firings, handler settlements and stop().               *)
(***************************************************************************)
OneInvocationOneTimer ==
    /\ Len(handler) <= 1
    /\ PendingTimers <= 1
    /\ wake.timer # 0 <=> PendingTimers = 1

\* a third invocation is in flight; a request arrived during it and stop()
\* was called
ThirdInvocationRequestedAndStopped ==
    /\ Len(handler) = 1
    /\ wakeObs.invoked = 3
    /\ wakeObs.stops = 1
    /\ wakeObs.during
    /\ PendingTimers = 0

(***************************************************************************)
(* C29: `scheduled` is true only while a handler invocation is in flight:  *)
(* scheduled implies running, and running is true exactly while the        *)
(* handler executes.                                                       *)
(***************************************************************************)
ScheduledOnlyWhileRunning ==
    /\ wake.scheduled => wake.running
    /\ wake.running <=> Len(handler) > 0
    /\ wake.scheduled => wakeObs.during

\* a request arrived during the invocation in flight and set the flag
ScheduledDuringInvocation ==
    /\ wake.scheduled
    /\ wake.running
    /\ wakeObs.arrivedDuring > 0
    /\ Len(handler) = 1

(***************************************************************************)
(* C30: the reason passed to a handler invocation is the reason of         *)
(* highest priority among the request() calls made since the previous      *)
(* invocation read the pending reason, those made during that invocation   *)
(* included; only the coalescer's own retry, where it outranks them, takes *)
(* their place.                                                            *)
(***************************************************************************)
InvocationReasonIsHighestRequested ==
    (Len(handler) > 0 /\ wakeObs.expected # "") =>
        \/ handler[Len(handler)].reason = wakeObs.expected
        \/ /\ handler[Len(handler)].reason = "retry"
           /\ priority("retry") > priority(wakeObs.expected)

(***************************************************************************)
(* C31: when the handler returns skipped with reason requests-in-flight,   *)
(* the coalescer arms a timer of retryMs for the re-execution, and the     *)
(* pending reason is retry.                                                *)
(***************************************************************************)
RetryArmsOneSecondTimer ==
    [][(wake.running /\ ~wake'.running /\ wake'.pendingReason = "retry") =>
          /\ wake'.timer \in DOMAIN timeouts'
          /\ timeouts'[wake'.timer] = retryMs]_vars

(***************************************************************************)
(* What an observer of the HeartbeatManager notes (runnerObs):             *)
(*   updates    updateConfig calls                                         *)
(*   quiet      stop() has returned and start(), requestNow() and          *)
(*              trigger() have not been called since                       *)
(***************************************************************************)
\* a callback registered with onTasks is called in this step
CallbackDispatched ==
    \E i \in DOMAIN invocations' :
        invocations'[i].called > (IF i \in DOMAIN invocations THEN invocations[i].called ELSE 0)

(***************************************************************************)
(* C32: after HeartbeatManager.stop() has returned, and as long as         *)
(* start(), requestNow() and trigger() are not called, no handler          *)
(* invocation of the coalescer begins and no registered callback is        *)
(* dispatched.                                                             *)
(***************************************************************************)
QuietAfterStop ==
    [][(runnerObs.quiet /\ runnerObs'.quiet) =>
          /\ Len(handler') <= Len(handler)
          /\ ~CallbackDispatched]_vars

\* the runOnce calls that have not returned
InFlight == {i \in DOMAIN invocations : invocations[i].pc # "returned"}

(***************************************************************************)
(* C33: at most one execution of HeartbeatManager.runOnce is in flight at  *)
(* any time, however the interval timer, requestNow() and trigger()        *)
(* interleave.                                                             *)
(***************************************************************************)
OneRunOnceInFlight == Cardinality(InFlight) <= 1

RunOnceCompletes ==
    \E i \in DOMAIN invocations' :
        /\ invocations'[i].pc = "returned"
        /\ i \in DOMAIN invocations => invocations[i].pc # "returned"

(***************************************************************************)
(* C36: while the manager is started and enabled, a timeout armed by       *)
(* scheduleNext is pending after every runOnce that has completed, a run   *)
(* skipped as outside the active hours included.                           *)
(***************************************************************************)
TimerPendingAfterEveryRun ==
    [][(RunOnceCompletes /\ runner'.started /\ hbConfig'.enabled) =>
          DOMAIN runnerTimeouts' # {}]_vars

(***************************************************************************)
(* C35: once the cancellation signal of a run is set, the loop starts no   *)
(* further model-stream attempt for that run, also when the signal is set  *)
(* while retryAsync sleeps between two attempts.                           *)
(***************************************************************************)
NoStreamAfterAbort ==
    [][\A c \in Runs :
          runs[c].aborted => Len(runs'[c].streams) = Len(runs[c].streams)]_vars

RunReturns(c) ==
    /\ runs[c].pc \in BodyPcs
    /\ ~runs[c].aborted
    /\ runs'[c].pc = "bodyDone"
    /\ ~runs'[c].failed

\* the texts that may be queued at the return: those queued before the body
\* started, unless the run has emptied the queue since
QueuedBeforeAndKept(c) ==
    IF runs[c].steeringText # <<>> THEN 0 ELSE runs[c].queuedBefore

NoSteeringLeftAtReturn ==
    [][\A c \in Runs :
          RunReturns(c) =>
              Len(Get(steeringQueues', runs[c].key, <<>>)) <= QueuedBeforeAndKept(c)]_vars

(***************************************************************************)
(* C39: when a model-stream attempt of a turn fails and the turn is        *)
(* retried, the assistant message appended for the turn holds exactly the  *)
(* text and the tool_use blocks the stream of the last attempt yielded,    *)
(* the tool calls handed to execution are the calls of that attempt, and   *)
(* every executed call is one of the tool_use blocks of that message.      *)
(***************************************************************************)
RECURSIVE AttemptEvents(_)
\* the events at the end of E that a stream emits while it is consumed: the
\* text deltas and the tool starts since the attempt began
AttemptEvents(E) ==
    IF E = <<>> THEN <<>>
    ELSE LET e == E[Len(E)] IN
         IF \/ e.stream = "assistant" /\ e.phase = "delta"
            \/ e.stream = "tool" /\ e.phase = "start"
         THEN Append(AttemptEvents(SubSeq(E, 1, Len(E) - 1)), e)
         ELSE <<>>

\* what the last attempt of run c's current turn has received
AttemptCalls(c) ==
    Len(SelectSeq(AttemptEvents(Get(events, RunIdOf(c), <<>>)),
                  LAMBDA e : e.stream = "tool"))
AttemptText(c) ==
    \E i \in DOMAIN AttemptEvents(Get(events, RunIdOf(c), <<>>)) :
        AttemptEvents(Get(events, RunIdOf(c), <<>>))[i].stream = "assistant"

OnlyLastAttemptKept ==
    [][\A c \in Runs :
          /\ (runs[c].pc = "appendAssistant" /\ runs'[c].pc # "appendAssistant") =>
                LET msg == Last(Get(log', runs[c].key, <<>>)) IN
                /\ msg.role = "assistant"
                /\ msg.by = c
                /\ msg.ids = ToolIds(c, runs[c].turns, AttemptCalls(c))
                /\ msg.content = (IF AttemptText(c) THEN AssistantText ELSE <<>>)
                /\ runs'[c].nCalls = AttemptCalls(c)
          /\ ToolCallFinishes(c) =>
                runs[c].idx \in 1..Len(TurnToolUseIds(c))]_vars

\* a first attempt that had yielded a tool call failed and was retried, and
\* the assistant message of the turn has the text of the last attempt and no
\* tool_use block
RetriedTurnKeptLastAttempt ==
    \E c \in Runs :
        LET E == Get(events, RunIdOf(c), <<>>)
            A == SelectSeq(AppendsOf(c), LAMBDA m : m.role = "assistant")
        IN  /\ \E i \in 1..(Len(E) - 1) :
                  /\ E[i].stream = "tool" /\ E[i].phase = "start"
                  /\ E[i + 1].stream = "lifecycle" /\ E[i + 1].phase = "retry"
            /\ Len(A) = 1
            /\ A[1].ids = <<>>
            /\ A[1].content = AssistantText
            /\ runs[c].pc = "done"

(***************************************************************************)
(* C40: for every lane, `active` is the number of tasks of the lane that   *)
(* were started and whose wrapper has not yet resumed after they settled,  *)
(* and it is never negative, also when an onWait callback throws while the *)
(* lane is drained.                                                        *)
(***************************************************************************)
\* the tasks of `lane` whose task() was called and whose settlement the
\* wrapper of drainLane has not yet handled
ExecutingOn(lane) ==
    {t \in DOMAIN tasks : /\ tasks[t].lane = lane
                          /\ tasks[t].startNo > 0
                          /\ tasks[t].pc \in {"running", "settled"}}

ActiveCountsExecuting ==
    \A lane \in DOMAIN lanes :
        /\ lanes[lane].active >= 0
        /\ lanes[lane].active = Cardinality(ExecutingOn(lane))

====
